---- MODULE Spec2Model ----
(***************************************************************************)
(* auto-cert-webhook: the certificate lifecycle control plane.             *)
(*                                                                         *)
(*   certprovider.Provider   (all replicas)  watches the serving Secret    *)
(*   certmanager.Manager     (leader only)   CA -> bundle -> serving       *)
(*   cabundle.Syncer         (leader only)   bundle -> webhook caBundle    *)
(*   leaderelection.Run      lease-based election gating the two above     *)
(*                                                                         *)
(* Certificate time is counted in whole units far longer than one tick of  *)
(* the manager (12 hours, say: the default durations 48h/24h/24h/12h are   *)
(* then 4/2/2/1); lease time is counted in units of the retry period.      *)
(***************************************************************************)
EXTENDS Integers, Sequences, FiniteSets, TLC

\* ------------------------------------------------------------------ bounds
NumReplicas == 2
NumReaders  == 2
MaxSerial   == 2
MaxDur      == 3
MaxTime     == 4
MaxMint     == 4
MaxEdits    == 2
StartTime   == 2
MaxEntries  == 2
MaxLease    == 3
MaxLeaseTime == 5
MaxFOLease   == 7    \* largest LeaseDuration of the failover specification
MaxKillTime  == 3    \* latest lease time at which the leader is killed
MaxFOTime    == 18   \* last lease time of the failover specification
MaxWHTime    == 2    \* last certificate time of the webhook specification
MaxWEdits    == 1    \* writes other writers make to webhook configurations
MaxHooks     == 2    \* hooks admission.Webhooks() returns at most
MaxCfgVal    == 2    \* largest number written into a Config field or a variable

Replicas == 1..NumReplicas
Readers  == 1..NumReaders

\* --------------------------------------------------------------- data model
\* An x509 certificate: serial identifies the keypair, issuer is the serial of
\* the signing CA (a self-signed CA has issuer = serial).
NoCert == [serial |-> 0, nb |-> 0, na |-> 0, issuer |-> 0]

\* One data field of a Secret (tls.crt or tls.key): absent key, empty bytes,
\* bytes that do not parse, or PEM.
FieldKinds == {"missing", "empty", "corrupt", "pem"}

\* A corev1.Secret as an informer hands it to a handler.
\*   name : "cert" is the configured serving-secret name, "other" any other
\*   crt  : kind of Data["tls.crt"], cert the certificate it holds when "pem"
\*   key  : kind of Data["tls.key"], keyId the key it holds when "pem"
SecretObj(name, crt, cert, key, keyId) ==
    [name |-> name, crt |-> crt, cert |-> cert, key |-> key, keyId |-> keyId]

\* *tls.Certificate; the nil pointer is NilKeypair.
NilKeypair == [cert |-> 0, key |-> 0]

VARIABLES
    \* certprovider.Provider, one per replica
    current,      \* p.current : atomic.Pointer[tls.Certificate]
    ready,        \* p.ready   : atomic.Bool
    wpc,          \* position of the informer goroutine inside onSecretUpdate
    got,          \* result of each TLS reader's latest GetCertificate call
    \* what the event sequence so far amounts to (per replica)
    everInstalled, \* some add/update of the serving Secret carried a parseable pair
    deletedSince,  \* a delete of the serving Secret fired after the latest such event
    lastGood,      \* the pair carried by the latest such event
    prevGood,      \* the pair carried by the one before it
    lastEv         \* the latest event handled: type and whether it was applied

VARIABLES
    \* the cluster object store and the clock
    now,          \* time.Now(), in units of 12 hours
    cfg,          \* certmanager.Config: CAValidity, CARefresh, CertValidity, CertRefresh
    caSecret,     \* Secret <name>-ca
    certSecret,   \* Secret <name>-cert
    bundleCM,     \* ConfigMap <name>-ca-bundle
    nextSerial,   \* serial of the next certificate to be generated
    cas,          \* every CA certificate that has existed so far
    \* certmanager.Manager, one per replica
    mpc,          \* position of the Start goroutine inside sync
    mca,          \* sync's local `ca`, the signer ensureCA returned
    mbundle,      \* sync's local `bundle`, the certificates ensureCABundle returned
    \* what the current / latest tick did (per replica)
    trace,        \* the steps of sync entered in this tick, in order
    failedAt,     \* the step whose error ended the tick, "" if none
    tickWrites,   \* API writes (create/update) of this tick
    lastTick,     \* "none" | "ok" | "failed" : how the latest finished tick ended
    okTicks,      \* ticks finished without error so far (counted up to 2)
    quiet,        \* this tick began on the state the previous successful tick left
    changed,      \* "no", or something became due or was edited since the latest
                  \* successful tick began: "before" or "during" the current tick
    cmBefore,     \* certificates the ConfigMap held when ensureCABundle read it
    dropped,      \* this tick's ensureCABundle removed a CA with NotAfter > now
    doneAt,       \* the time at which the latest tick finished
    edits,        \* number of deletions made from outside so far
    rot           \* what ensureCA found and did in this tick, and the serving Secret then

provVars == <<current, ready, wpc, got, everInstalled, deletedSince, lastGood, prevGood, lastEv>>
clusterVars == <<now, cfg, caSecret, certSecret, bundleCM, nextSerial, cas>>
mgrVars == <<mpc, mca, mbundle, trace, failedAt, tickWrites, lastTick, okTicks, quiet, changed,
             cmBefore, dropped, doneAt, edits, rot>>

VARIABLES
    \* RunWithContext, the informers and the webhook configurations
    started,      \* RunWithContext is running on the replica
    ppc,          \* position of Provider.Start: "off" | "load" | "sync" | "watch"
    secQ,         \* serving-Secret events the provider's informer has yet to hand over
    spc,          \* position of Syncer.Start: "off" | "watch"
    cmQ,          \* bundle-ConfigMap events the syncer's informer has yet to hand over
    hooks,        \* the hook types registered; webhookRefs has one ref per type
    whc           \* the webhook configurations by type: exists, entries (each entry's caBundle)

VARIABLES
    \* leaderelection, one elector per replica, and the Lease they share
    env,          \* the replica's environment: POD_NAME and what os.Hostname returns
    lcfg,         \* LeaseDuration, RenewDeadline, RetryPeriod (in units of lease time)
    lease,        \* the Lease object: holder identity and renew time
    lnow,         \* the clock the electors read
    le,           \* position of leaderelection.Run: "off" | "acquiring" | "leading" | "stopped"
    observed,     \* the elector's observedRecord and observedTime
    lastRenew,    \* when the elector last renewed successfully
    nextTry,      \* earliest time of the elector's next attempt (RetryPeriod pacing)
    leaderCtx     \* "none" | "live" | "cancelled": the context handed to OnStartedLeading

sysVars == <<started, ppc, secQ, spc, cmQ, hooks, whc>>

VARIABLES
    killedAt,     \* lease time at which a replica's process was killed, -1 before
    exit,         \* "none" | "nil" | "err": what RunWithContext returned
    mStart,       \* Manager.Start: "off" | "waitSync" | "running" | "nil" | "err"
    sStart,       \* Syncer.Start: "off" | "waitSync" | "running" | "nil" | "err"
    errCh         \* the errors sent on RunWithContext's errCh, by sender

runVars == <<killedAt, exit, mStart, sStart, errCh>>

VARIABLES
    pass,         \* the syncer's onConfigMapUpdate pass: position, bundle bytes, refs to do,
                  \* entries seen by GET, and the outcome of every ref attempted so far
    wedits,       \* number of writes made to webhook configurations from outside
    late          \* per webhook type: applied from outside, when, whether the leader's
                  \* components were running then, and whether a GET found it since

syncVars == <<pass, wedits, late>>

VARIABLES
    \* RunWithContext before anything is started (one process)
    userCfg,      \* what admission.Configure() returned
    userHeap,     \* the values the pointer fields of that Config point to
    osEnv,        \* the process environment, by Config field (ACW_<tag>)
    webhooks,     \* what admission.Webhooks() returned
    bootCfg,      \* RunWithContext's local cfg
    heap,         \* the values behind every *bool now
    bpc,          \* position: "env" | "hooks" | "durations" | "client" | "start"
                  \*           | "running" | "returned"
    bootErr,      \* the error RunWithContext returned, "" while there is none
    effects       \* what RunWithContext has created or started so far

bootVars == <<userCfg, userHeap, osEnv, webhooks, bootCfg, heap, bpc, bootErr, effects>>

VARIABLES
    \* per replica
    rootCtx,      \* the ctx given to RunWithContext: "live" | "cancelled"
    srvpc,        \* Start of the webhook server and of the metrics server:
                  \* "off" | "serving" | "nil" | "err"
    sel           \* RunWithContext's final select: "before" | "parked" | "done"

stopVars == <<rootCtx, srvpc, sel>>

\* The two HTTP servers RunWithContext starts.
Servers == {"server", "metrics"}

VARIABLES
    probe,        \* the latest request to the readiness path and its response
    adm           \* the latest admission request, what Admit returned, the response

httpVars == <<probe, adm>>

electVars == <<env, lcfg, lease, lnow, le, observed, lastRenew, nextTry, leaderCtx>>

leVars == <<env, lcfg, lease, lnow, le, observed, lastRenew, nextTry, leaderCtx, runVars, syncVars,
           bootVars, stopVars, httpVars>>

vars == <<provVars, clusterVars, mgrVars, sysVars, leVars>>

\* ----------------------------------------------------------- certprovider
\* tls.X509KeyPair without the check that the key belongs to the certificate.
X509KeyPairAnyKey(secret) ==
    /\ secret.crt = "pem"
    /\ secret.key = "pem"

\* tls.X509KeyPair(certPEM, keyPEM): succeeds iff both blocks parse and the
\* private key belongs to the certificate.
X509KeyPairOk(secret) ==
    /\ secret.crt = "pem"
    /\ secret.key = "pem"
    /\ secret.keyId = secret.cert.serial

X509KeyPair(secret) == [cert |-> secret.cert.serial, key |-> secret.keyId]

\* A torn write: the certificate of the new pair next to the key of the old one.
TornStore(old, new) == [cert |-> new.cert, key |-> old.key]

\* onSecretUpdate without its p.current.Store.
StoreSkipped(old, new) == old

\* p.current.Store(&cert): one atomic pointer write of the whole keypair.
StoreCurrent(old, new) == new

\* The handlers without their name filter.
NameMatchesAny(name) == TRUE

\* secret.Name == p.name, the filter of AddFunc, UpdateFunc and DeleteFunc.
NameMatches(name) == name = "cert"

\* onSecretUpdate without the tls.key checks and without the parse-failure return.
IgnoreKeyCheck(secret) == secret.crt = "pem"

\* onSecretUpdate up to the parse: TRUE iff the handler goes on to the stores.
\*   tls.crt missing or empty -> return; tls.key missing or empty -> return;
\*   tls.X509KeyPair fails -> return.
onSecretUpdateAccepts(secret) ==
    /\ ~(secret.crt \in {"missing", "empty"})
    /\ ~(secret.key \in {"missing", "empty"})
    /\ X509KeyPairOk(secret)

\* GetCertificate finding no certificate whatever was stored.
GetCertificateUnset(cur) == [err |-> TRUE, kp |-> NilKeypair]

\* GetCertificate: a single atomic load; nil -> error.
GetCertificate(cur) ==
    IF cur = NilKeypair THEN [err |-> TRUE, kp |-> NilKeypair]
    ELSE [err |-> FALSE, kp |-> cur]

\* Ready(): p.ready.Load()
Ready(r) == ready[r]

NoResult == [err |-> FALSE, kp |-> NilKeypair, called |-> FALSE, installedBefore |-> FALSE,
             prev |-> NilKeypair, new |-> NilKeypair]

InitProvider ==
    /\ current = [r \in Replicas |-> NilKeypair]
    /\ ready = [r \in Replicas |-> FALSE]
    /\ wpc = [r \in Replicas |-> "idle"]
    /\ got = [rd \in Readers |-> NoResult]
    /\ everInstalled = [r \in Replicas |-> FALSE]
    /\ deletedSince = [r \in Replicas |-> FALSE]
    /\ lastGood = [r \in Replicas |-> NilKeypair]
    /\ prevGood = [r \in Replicas |-> NilKeypair]
    /\ lastEv = [r \in Replicas |-> [type |-> "none", applied |-> FALSE]]

\* What is wrong with the data of a Secret, stated on the Secret alone: tls.crt
\* missing or empty, tls.key missing or empty, or a pair that does not parse.
BadInput(secret) ==
    IF secret.crt \in {"missing", "empty"} THEN "tls.crt"
    ELSE IF secret.key \in {"missing", "empty"} THEN "tls.key"
    ELSE IF secret.crt = "corrupt" \/ secret.key = "corrupt"
              \/ secret.keyId # secret.cert.serial THEN "parse"
    ELSE ""

\* What the event means for the sequence so far, stated on the event alone:
\* an add/update of the serving Secret that carries a certificate and its own key.
CarriesPair(secret) ==
    /\ secret.name = "cert"
    /\ secret.crt = "pem" /\ secret.key = "pem"
    /\ secret.cert.serial = secret.keyId

NoteUpsert(r, secret) ==
    IF CarriesPair(secret)
    THEN /\ everInstalled' = [everInstalled EXCEPT ![r] = TRUE]
         /\ deletedSince' = [deletedSince EXCEPT ![r] = FALSE]
         /\ prevGood' = [prevGood EXCEPT ![r] = lastGood[r]]
         /\ lastGood' = [lastGood EXCEPT ![r] = [cert |-> secret.cert.serial, key |-> secret.keyId]]
    ELSE UNCHANGED <<everInstalled, deletedSince, lastGood, prevGood>>

\* AddFunc / UpdateFunc: the name filter, then onSecretUpdate up to and
\* including p.current.Store.  (ppc and secQ are left to the caller.)  The handler goroutine is then between its two
\* atomic stores (wpc = "stored") until ProviderStoreReady.
ProviderUpsert(r, type, secret) ==
    /\ wpc[r] = "idle"
    /\ NoteUpsert(r, secret)
    /\ IF NameMatches(secret.name) /\ onSecretUpdateAccepts(secret)
       THEN /\ current' = [current EXCEPT ![r] = StoreCurrent(current[r], X509KeyPair(secret))]
            /\ wpc' = [wpc EXCEPT ![r] = "stored"]
            /\ lastEv' = [lastEv EXCEPT ![r] = [type |-> type, applied |-> TRUE]]
       ELSE /\ UNCHANGED <<current, wpc>>
            /\ lastEv' = [lastEv EXCEPT ![r] = [type |-> type, applied |-> FALSE]]
    /\ UNCHANGED <<ready, got>>
    /\ UNCHANGED <<clusterVars, mgrVars, leVars, started, spc, cmQ, hooks, whc>>

\* p.ready.Store(true), the second atomic store of onSecretUpdate.
ProviderStoreReady(r) ==
    /\ wpc[r] = "stored"
    /\ ready' = [ready EXCEPT ![r] = TRUE]
    /\ wpc' = [wpc EXCEPT ![r] = "idle"]
    /\ UNCHANGED <<current, got, everInstalled, deletedSince, lastGood, prevGood, lastEv>>
    /\ UNCHANGED <<clusterVars, mgrVars, leVars, sysVars>>

\* DeleteFunc clearing the installed pair as well.
deleteClearsCurrent(cur) == NilKeypair

\* What DeleteFunc leaves in p.current: it has no store to it.
deleteFuncCurrent(cur) == cur

\* DeleteFunc leaving p.ready as it is.
deleteKeepsReady(rdy) == rdy

\* DeleteFunc: p.ready.Store(false).
deleteFuncReady(rdy) == FALSE

\* DeleteFunc: name filter, then p.ready.Store(false); p.current is not touched.
ProviderDelete(r, name) ==
    /\ wpc[r] = "idle"
    /\ deletedSince' = [deletedSince EXCEPT ![r] = (name = "cert") \/ deletedSince[r]]
    /\ IF NameMatches(name)
       THEN /\ ready' = [ready EXCEPT ![r] = deleteFuncReady(@)]
            /\ current' = [current EXCEPT ![r] = deleteFuncCurrent(@)]
            /\ lastEv' = [lastEv EXCEPT ![r] = [type |-> "delete", applied |-> TRUE]]
       ELSE /\ UNCHANGED <<ready, current>>
            /\ lastEv' = [lastEv EXCEPT ![r] = [type |-> "delete", applied |-> FALSE]]
    /\ UNCHANGED <<wpc, got, everInstalled, lastGood, prevGood>>
    /\ UNCHANGED <<clusterVars, mgrVars, leVars, started, spc, cmQ, hooks, whc>>

\* A TLS handshake on replica r calls GetCertificate, concurrently with the
\* informer goroutine (no guard on wpc).
ReaderGetCertificate(rd, r) ==
    /\ got' = [got EXCEPT ![rd] =
                 [err |-> GetCertificate(current[r]).err,
                  kp |-> GetCertificate(current[r]).kp,
                  called |-> TRUE,
                  installedBefore |-> everInstalled[r],
                  prev |-> prevGood[r],
                  new |-> lastGood[r]]]
    /\ UNCHANGED <<current, ready, wpc, everInstalled, deletedSince, lastGood, prevGood, lastEv>>
    /\ UNCHANGED <<clusterVars, mgrVars, leVars, sysVars>>

\* The Secrets an informer can deliver in the provider specification.
EventCerts == {[serial |-> s, nb |-> 0, na |-> 1, issuer |-> 0] : s \in 1..MaxSerial}

EventSecrets ==
    {SecretObj(n, "pem", c, "pem", k) : n \in {"cert", "other"}, c \in EventCerts, k \in 1..MaxSerial}
    \cup {SecretObj(n, ck, NoCert, kk, 0) : n \in {"cert", "other"},
                                           ck \in {"missing", "empty", "corrupt"},
                                           kk \in {"missing", "empty", "corrupt"}}
    \cup {SecretObj(n, "pem", c, kk, 0) : n \in {"cert", "other"}, c \in EventCerts,
                                         kk \in {"missing", "empty", "corrupt"}}
    \cup {SecretObj(n, ck, NoCert, "pem", k) : n \in {"cert", "other"},
                                              ck \in {"missing", "empty", "corrupt"},
                                              k \in 1..MaxSerial}

\* ------------------------------------------------------- the HTTP handlers
\* readyzHandler: 503 and "certificate not ready" unless Ready(); otherwise
\* the body "ok" is written, which sends status 200.
readyzAlwaysOk(isReady) == [status |-> 200, body |-> "ok"]

readyzHandler(isReady) ==
    IF ~isReady THEN [status |-> 503, body |-> "certificate not ready"]
    ELSE [status |-> 200, body |-> "ok"]

NoProbe == [called |-> FALSE, readyWas |-> FALSE, installed |-> FALSE, deleted |-> FALSE,
            resp |-> [status |-> 0, body |-> ""]]

\* An HTTP request to an admission path.
\*   scheme  : initScheme succeeded
\*   body    : "nil" | "empty" | "toolarge" | "garbage" | "review"
\*   ctype   : the Content-Type header
\*   request : the decoded AdmissionReview has a Request
\*   apiVersion, uid : of the decoded AdmissionReview and of its Request
AdmissionRequests ==
    [scheme : BOOLEAN, body : {"nil", "empty", "toolarge", "garbage", "review"},
     ctype : {"application/json", "text/plain"}, request : BOOLEAN,
     apiVersion : {"", "admission.k8s.io/v1beta1"}, uid : {"u1", "u2"}]

\* What a hook's Admit can return: nil, or a response allowing or denying.
AdmitResults == {"nil", "allow", "deny"}

\* What the client gets: a plain error (http.Error), an AdmissionReview with
\* status 200, or nothing because the handler panicked.
HTTPError(status, text) ==
    [kind |-> "error", status |-> status, text |-> text, allowed |-> FALSE, code |-> 0,
     uid |-> "", apiVersion |-> ""]
Review(allowed, code, uid, apiVersion) ==
    [kind |-> "review", status |-> 200, text |-> "", allowed |-> allowed, code |-> code,
     uid |-> uid, apiVersion |-> apiVersion]
Panic ==
    [kind |-> "panic", status |-> 0, text |-> "", allowed |-> FALSE, code |-> 0,
     uid |-> "", apiVersion |-> ""]

\* admissionHandler.ServeHTTP, a being what h.admit returns when called.
ServeHTTP(req, a) ==
    IF ~req.scheme THEN HTTPError(500, "internal server error")
    ELSE IF req.body = "toolarge" THEN HTTPError(400, "failed to read request body")
    ELSE IF req.body \in {"nil", "empty"} THEN HTTPError(400, "empty request body")
    ELSE IF req.ctype # "application/json" THEN HTTPError(415, "unsupported content type")
    ELSE IF req.body = "garbage" THEN HTTPError(400, "failed to decode admission review")
    ELSE LET apiVersion == IF req.apiVersion # "" THEN req.apiVersion ELSE "admission.k8s.io/v1" IN
         IF ~req.request THEN Review(FALSE, 400, "", apiVersion)
         ELSE IF a = "nil" THEN Panic
         ELSE Review(a = "allow", 0, req.uid, apiVersion)

NoAdmission ==
    [called |-> FALSE,
     req |-> [scheme |-> TRUE, body |-> "nil", ctype |-> "text/plain", request |-> FALSE,
              apiVersion |-> "", uid |-> "u1"],
     admit |-> "nil", out |-> HTTPError(0, "")]

\* ------------------------------------------------------------ configuration
\* validateCertDurations: "" when the four durations are accepted.
validateCertDurationsLax(c) ==
    IF c.CAValidity <= 0 THEN "CA validity must be positive"
    ELSE IF c.CARefresh <= 0 THEN "CA refresh must be positive"
    ELSE IF c.CertValidity <= 0 THEN "cert validity must be positive"
    ELSE IF c.CertRefresh <= 0 THEN "cert refresh must be positive"
    ELSE IF c.CARefresh > c.CAValidity THEN "CA refresh must be less than CA validity"
    ELSE IF c.CertRefresh > c.CertValidity THEN "cert refresh must be less than cert validity"
    ELSE ""

validateCertDurations(c) ==
    IF c.CAValidity <= 0 THEN "CA validity must be positive"
    ELSE IF c.CARefresh <= 0 THEN "CA refresh must be positive"
    ELSE IF c.CertValidity <= 0 THEN "cert validity must be positive"
    ELSE IF c.CertRefresh <= 0 THEN "cert refresh must be positive"
    ELSE IF c.CARefresh >= c.CAValidity THEN "CA refresh must be less than CA validity"
    ELSE IF c.CertRefresh >= c.CertValidity THEN "cert refresh must be less than cert validity"
    ELSE ""

Durations == 0..MaxDur

\* The configurations RunWithContext lets through to certmanager.New.
AcceptedConfigs ==
    {c \in [CAValidity : Durations, CARefresh : Durations,
            CertValidity : Durations, CertRefresh : Durations] : validateCertDurations(c) = ""}

\* The fields of Config, in the order of the struct.
FieldSeq ==
    <<"Name", "Namespace", "ServiceName", "Port", "MetricsEnabled", "MetricsPort",
      "MetricsPath", "HealthzPath", "ReadyzPath", "CASecretName", "CertSecretName",
      "CABundleConfigMapName", "CAValidity", "CARefresh", "CertValidity", "CertRefresh",
      "LeaderElection", "LeaderElectionID", "LeaseDuration", "RenewDeadline", "RetryPeriod">>

Fields == {FieldSeq[i] : i \in 1..Len(FieldSeq)}

\* The Go kind of a field: string, int, time.Duration (hours for the
\* certificate durations, seconds for the lease timings) or *bool.
Kind(f) ==
    IF f \in {"Port", "MetricsPort"} THEN "int"
    ELSE IF f \in {"CAValidity", "CARefresh", "CertValidity", "CertRefresh",
                   "LeaseDuration", "RenewDeadline", "RetryPeriod"} THEN "duration"
    ELSE IF f \in {"MetricsEnabled", "LeaderElection"} THEN "ptr"
    ELSE "string"

PtrFields == {f \in Fields : Kind(f) = "ptr"}
DurFields == {"CAValidity", "CARefresh", "CertValidity", "CertRefresh"}

\* A *bool is nil or the address of a bool; an address says who allocated it.
Nil == [at |-> <<"nil", "">>]
Ptr(owner, f) == [at |-> <<owner, f>>]
Addrs == {<<o, f>> : o \in {"user", "copy", "env"}, f \in PtrFields}
FreeHeap == [a \in Addrs |-> "free"]

\* The zero value of a kind.
Zero(k) == IF k = "string" THEN "" ELSE IF k = "ptr" THEN Nil ELSE 0

\* reflect's IsNil / IsZero as applyEnvConfig asks them of a field.
IsUnset(f, v) == v = Zero(Kind(f))

ZeroConfig == [f \in Fields |-> Zero(Kind(f))]

\* The `default:"..."` struct tags.
TaggedFields ==
    {"Port", "MetricsEnabled", "MetricsPort", "MetricsPath", "HealthzPath", "ReadyzPath",
     "CAValidity", "CARefresh", "CertValidity", "CertRefresh",
     "LeaseDuration", "RenewDeadline", "RetryPeriod"}

DefaultTag(f) ==
    CASE f = "Port" -> 8443
      [] f = "MetricsEnabled" -> "true"
      [] f = "MetricsPort" -> 8080
      [] f = "MetricsPath" -> "/metrics"
      [] f = "HealthzPath" -> "/healthz"
      [] f = "ReadyzPath" -> "/readyz"
      [] f = "CAValidity" -> 48
      [] f = "CARefresh" -> 24
      [] f = "CertValidity" -> 24
      [] f = "CertRefresh" -> 12
      [] f = "LeaseDuration" -> 30
      [] f = "RenewDeadline" -> 10
      [] f = "RetryPeriod" -> 5

\* One environment variable ACW_<tag>: not set, set to text that does not
\* parse as the field's kind, or set to text that parses to val.
NoText(f) == IF Kind(f) = "ptr" THEN "nil" ELSE Zero(Kind(f))
Unset(f) == [set |-> FALSE, bad |-> FALSE, val |-> NoText(f)]
Malformed(f) == [set |-> TRUE, bad |-> TRUE, val |-> NoText(f)]
EnvVal(v) == [set |-> TRUE, bad |-> FALSE, val |-> v]
NoEnv == [f \in Fields |-> Unset(f)]

\* What a field holds: a *bool is read through the pointer.
Deref(c, h, f) ==
    IF Kind(f) = "ptr" THEN (IF c[f] = Nil THEN "nil" ELSE h[c[f].at]) ELSE c[f]

\* deepCopyConfig: a copy of the struct whose non-nil pointer fields point to
\* fresh copies of the values.
shallowCopyConfig(c, h) == [cfg |-> c, heap |-> h]

deepCopyConfig(c, h) ==
    [cfg  |-> [f \in Fields |->
                 IF Kind(f) = "ptr" /\ c[f] # Nil THEN Ptr("copy", f) ELSE c[f]],
     heap |-> [a \in Addrs |->
                 IF a[1] = "copy" /\ c[a[2]] # Nil THEN h[c[a[2]].at] ELSE h[a]]]

\* envconfig.Process for one field: the variable when set, else the default
\* tag, else the field is left alone; text that does not parse is an error;
\* a *bool is written through the pointer, which is allocated when nil.
processField(c, h, e, f) ==
    IF ~e[f].set /\ f \notin TaggedFields
    THEN [err |-> FALSE, cfg |-> c, heap |-> h]
    ELSE LET value == IF e[f].set THEN e[f].val ELSE DefaultTag(f) IN
         IF e[f].bad THEN [err |-> TRUE, cfg |-> c, heap |-> h]
         ELSE IF Kind(f) # "ptr"
         THEN [err |-> FALSE, cfg |-> [c EXCEPT ![f] = value], heap |-> h]
         ELSE IF c[f] = Nil
         THEN [err |-> FALSE, cfg |-> [c EXCEPT ![f] = Ptr("env", f)],
               heap |-> [h EXCEPT ![<<"env", f>>] = value]]
         ELSE [err |-> FALSE, cfg |-> c, heap |-> [h EXCEPT ![c[f].at] = value]]

\* envconfig.Process: the fields in struct order, stopping at the first error.
RECURSIVE envconfigProcess(_, _, _, _)
envconfigProcess(c, h, e, i) ==
    IF i > Len(FieldSeq) THEN [err |-> FALSE, cfg |-> c, heap |-> h]
    ELSE LET r == processField(c, h, e, FieldSeq[i]) IN
         IF r.err THEN r ELSE envconfigProcess(r.cfg, r.heap, e, i + 1)

\* applyEnvConfig's loop: the fields the user's copy has non-nil / non-zero
\* are put back.
RestoreUser(c, user) ==
    [f \in Fields |-> IF IsUnset(f, user[f]) THEN c[f] ELSE user[f]]

\* applyEnvConfig(&cfg).
applyEnvConfig(c, h, e) ==
    LET user == deepCopyConfig(c, h)
        pr   == envconfigProcess(c, user.heap, e, 1)
    IN IF pr.err THEN pr
       ELSE [err |-> FALSE, cfg |-> RestoreUser(pr.cfg, user.cfg), heap |-> pr.heap]

\* getNamespace(): ACW_NAMESPACE is already in cfg when set, so what is left
\* is POD_NAMESPACE, the ServiceAccount file or "default".
getNamespace == "detected"

\* applyDefaults(&cfg).
applyDefaults(c) ==
    [f \in Fields |->
       IF Kind(f) # "string" \/ c[f] # "" THEN c[f]
       ELSE CASE f = "Namespace" -> getNamespace
              [] f = "ServiceName" -> c["Name"]
              [] f = "CASecretName" -> c["Name"] \o "-ca"
              [] f = "CertSecretName" -> c["Name"] \o "-cert"
              [] f = "CABundleConfigMapName" -> c["Name"] \o "-ca-bundle"
              [] f = "LeaderElectionID" -> c["Name"] \o "-leader"
              [] OTHER -> c[f]]

\* A Hook: Path as its characters, Admit non-nil or not, Type.
Hook(path, admit, type) == [Path |-> path, Admit |-> admit, Type |-> type]

\* RunWithContext's loop over the hooks from index i on, seenPaths being the
\* paths of the hooks before: "" or the error of the first hook refused.
RECURSIVE validateHooksNoDup(_, _, _)
validateHooksNoDup(hs, i, seenPaths) ==
    IF i > Len(hs) THEN ""
    ELSE IF hs[i].Path = <<>> THEN "path is required"
    ELSE IF hs[i].Path[1] # "/" THEN "path must start with '/'"
    ELSE IF ~hs[i].Admit THEN "admit function is required"
    ELSE IF hs[i].Type \notin {"Mutating", "Validating"} THEN "type must be Mutating or Validating"
    ELSE validateHooksNoDup(hs, i + 1, seenPaths \cup {hs[i].Path})

RECURSIVE validateHooks(_, _, _)
validateHooks(hs, i, seenPaths) ==
    IF i > Len(hs) THEN ""
    ELSE IF hs[i].Path = <<>> THEN "path is required"
    ELSE IF hs[i].Path[1] # "/" THEN "path must start with '/'"
    ELSE IF hs[i].Path \in seenPaths THEN "path already defined"
    ELSE IF ~hs[i].Admit THEN "admit function is required"
    ELSE IF hs[i].Type \notin {"Mutating", "Validating"} THEN "type must be Mutating or Validating"
    ELSE validateHooks(hs, i + 1, seenPaths \cup {hs[i].Path})

\* ------------------------------------------------------------ cluster objects
AbsentSecret == [exists |-> FALSE, crt |-> "missing", cert |-> NoCert, key |-> "missing", keyId |-> 0]

\* createSecret: a tls-typed Secret with empty tls.crt and tls.key.
createSecret == [exists |-> TRUE, crt |-> "empty", cert |-> NoCert, key |-> "empty", keyId |-> 0]

CorruptSecret == [exists |-> TRUE, crt |-> "corrupt", cert |-> NoCert, key |-> "corrupt", keyId |-> 0]

SecretWith(c) == [exists |-> TRUE, crt |-> "pem", cert |-> c, key |-> "pem", keyId |-> c.serial]

AbsentCM == [exists |-> FALSE, data |-> "missing", certs |-> <<>>]

CMWith(certs) == [exists |-> TRUE, data |-> IF certs = <<>> THEN "empty" ELSE "pem", certs |-> certs]

Range(seq) == {seq[i] : i \in 1..Len(seq)}

Serials(certs) == {c.serial : c \in Range(certs)}

\* ------------------------------------------- the rotators (openshift/library-go)
\* crypto.GetCAFromBytes on the Secret's material: a usable self-signed CA.
UsableCA(secret) ==
    /\ secret.exists
    /\ secret.crt = "pem" /\ secret.key = "pem"
    /\ secret.keyId = secret.cert.serial
    /\ secret.cert.issuer = secret.cert.serial

\* The signing rotator with the refresh measured from NotBefore.
needNewSigningFromNotBefore(secret, refresh, t) ==
    \/ ~UsableCA(secret)
    \/ t >= secret.cert.nb + refresh

\* The signing rotator's decision: no usable certificate, or now >= NotAfter - Refresh.
needNewSigningCertKeyPair(secret, refresh, t) ==
    \/ ~UsableCA(secret)
    \/ t >= secret.cert.na - refresh

\* A new self-signed CA valid for `validity`.
NewSigningCert(serial, validity, t) ==
    [serial |-> serial, nb |-> t, na |-> t + validity, issuer |-> serial]

\* crypto.FilterExpiredCerts: keep the certificates with NotAfter > now.
FilterExpiredCerts(certs, t) == SelectSeq(certs, LAMBDA c : c.na > t)

\* Drop later duplicates of a certificate.
RECURSIVE Dedupe(_)
Dedupe(certs) ==
    IF certs = <<>> THEN <<>>
    ELSE LET front == Dedupe(SubSeq(certs, 1, Len(certs) - 1))
             last == certs[Len(certs)]
         IN IF last \in Range(front) THEN front ELSE Append(front, last)

\* Certificates ordered by NotAfter descending (ties by serial descending).
Newer(a, b) == a.na > b.na \/ (a.na = b.na /\ a.serial > b.serial)

RECURSIVE SortByNotAfter(_)
SortByNotAfter(certs) ==
    IF certs = <<>> THEN <<>>
    ELSE LET S == Range(certs)
             top == CHOOSE c \in S : \A d \in S \ {c} : Newer(c, d)
         IN <<top>> \o SortByNotAfter(SelectSeq(certs, LAMBDA c : c # top))

\* What the ConfigMap's ca-bundle.crt parses to; unparseable content counts as none.
ParseCertsPEM(cm) == IF cm.exists /\ cm.data = "pem" THEN cm.certs ELSE <<>>

\* The bundle rotator's target: the signer plus every certificate already in
\* the ConfigMap with NotAfter > now.
EnsureConfigMapCABundle(cm, signer, t) ==
    SortByNotAfter(Dedupe(<<signer>> \o FilterExpiredCerts(ParseCertsPEM(cm), t)))

\* Create when absent, else update only when the sorted representation differs.
BundleNeedsWrite(cm, target) ==
    \/ ~cm.exists
    \/ cm.data # "pem"
    \/ SortByNotAfter(Dedupe(cm.certs)) # target
    \/ Dedupe(cm.certs) # cm.certs

UsableServing(secret) ==
    /\ secret.exists
    /\ secret.crt = "pem" /\ secret.key = "pem"
    /\ secret.keyId = secret.cert.serial

\* The serving rotator refreshing only strictly inside the refresh window.
needNewTargetStrictlyAfter(secret, bundle, refresh, t) ==
    \/ ~UsableServing(secret)
    \/ t > secret.cert.na - refresh
    \/ ~(secret.cert.issuer \in Serials(bundle))

\* The serving rotator waiting for the expiry itself.
needNewTargetAtExpiry(secret, bundle, refresh, t) ==
    \/ ~UsableServing(secret)
    \/ t >= secret.cert.na
    \/ ~(secret.cert.issuer \in Serials(bundle))

\* The serving rotator's decision: absent/invalid, now >= NotAfter - Refresh, or
\* the certificate does not chain to any CA of the bundle.
needNewTargetCertKeyPair(secret, bundle, refresh, t) ==
    \/ ~UsableServing(secret)
    \/ t >= secret.cert.na - refresh
    \/ ~(secret.cert.issuer \in Serials(bundle))

\* A new serving certificate signed by `ca`, valid for `validity`.
NewServingCert(serial, ca, validity, t) ==
    [serial |-> serial, nb |-> t, na |-> t + validity, issuer |-> ca.serial]

\* ------------------------------------------------------------- certmanager
\* sync without the early return after a failed ensureCABundle.
syncIgnoreBundleErr(step, err) ==
    IF err /\ step # "ensureCABundle" THEN "idle"
    ELSE IF step = "ensureCA" THEN "ensureCABundle"
    ELSE IF step = "ensureCABundle" THEN "ensureServingCert"
    ELSE "idle"

\* sync going from ensureCA straight to ensureServingCert.
syncSkipBundle(step, err) ==
    IF err THEN "idle"
    ELSE IF step = "ensureCA" THEN "ensureServingCert"
    ELSE "idle"

\* sync with the last two steps swapped.
syncServingFirst(step, err) ==
    IF err THEN "idle"
    ELSE IF step = "ensureCA" THEN "ensureServingCert"
    ELSE IF step = "ensureServingCert" THEN "ensureCABundle"
    ELSE "idle"

\* sync: the step that follows `step`; an error returns from sync, and the
\* three steps run in the order ensureCA, ensureCABundle, ensureServingCert.
sync(step, err) ==
    IF err THEN "idle"
    ELSE IF step = "ensureCA" THEN "ensureCABundle"
    ELSE IF step = "ensureCABundle" THEN "ensureServingCert"
    ELSE "idle"

\* The step of sync a position belongs to.
StepOf(pc) ==
    IF pc \in {"ensureCA", "ensureCA.rotate"} THEN "ensureCA"
    ELSE IF pc = "ensureCABundle" THEN "ensureCABundle"
    ELSE "ensureServingCert"

\* The lookup taking every Secret for missing.
AlwaysNotFound(secret) == TRUE

\* ensureCA / ensureServingCert: the lister's Get returned a NotFound error,
\* so createSecret is called.
IsNotFound(secret) == ~secret.exists

\* ensureCABundle handing the rotator an empty ConfigMap instead of the lister's.
ensureCABundleFromScratch(cm, ca, t) == EnsureConfigMapCABundle(AbsentCM, ca, t)

\* ensureCABundle: br.EnsureConfigMapCABundle(ctx, ca, signerName) on the
\* ConfigMap the lister holds; returns the bundle's certificates.
ensureCABundle(cm, ca, t) == EnsureConfigMapCABundle(cm, ca, t)

\* ensureServingCert handing the rotator the signer alone as the bundle.
OnlySigner(ca, bundle) == <<ca>>

\* ensureServingCert: tr.EnsureTargetCertKeyPair(ctx, ca, bundle) receives the
\* bundle ensureCABundle returned.
ServingBundleArg(ca, bundle) == bundle

\* Whether a tick at time t would find something to do.
SomethingDue(t) ==
    \/ needNewSigningCertKeyPair(caSecret, cfg.CARefresh, t)
    \/ ~bundleCM.exists
    \/ \E c \in Range(bundleCM.certs) : c.na <= t
    \/ needNewTargetCertKeyPair(certSecret, bundleCM.certs, cfg.CertRefresh, t)

\* Nothing recorded about ensureCA yet in this tick.
NoRot == [why |-> "none", old |-> NoCert, servingWas |-> AbsentSecret]

\* A cluster-API call made with a context that is already cancelled returns
\* the context's error and changes nothing.
CtxIgnored(r) == TRUE

\* The context Manager.Start and Syncer.Start were handed is not cancelled.
CtxLive(r) == leaderCtx[r] # "cancelled"

InitManager ==
    /\ mpc = [r \in Replicas |-> "idle"]
    /\ mca = [r \in Replicas |-> NoCert]
    /\ mbundle = [r \in Replicas |-> <<>>]
    /\ trace = [r \in Replicas |-> <<>>]
    /\ failedAt = [r \in Replicas |-> ""]
    /\ tickWrites = [r \in Replicas |-> 0]
    /\ lastTick = [r \in Replicas |-> "none"]
    /\ okTicks = [r \in Replicas |-> 0]
    /\ quiet = [r \in Replicas |-> FALSE]
    /\ changed = "no"
    /\ cmBefore = [r \in Replicas |-> <<>>]
    /\ dropped = [r \in Replicas |-> FALSE]
    /\ doneAt = [r \in Replicas |-> 0]
    /\ edits = 0
    /\ rot = [r \in Replicas |-> NoRot]

\* The Secret as an informer hands it to the provider's handlers.
AsEvent(secret) == SecretObj("cert", secret.crt, secret.cert, secret.key, secret.keyId)

\* A write of the serving Secret reaches every provider whose informer runs.
NotifySecret(type, secret) ==
    [r \in Replicas |->
        IF ppc[r] = "watch" THEN Append(secQ[r], [type |-> type, obj |-> AsEvent(secret)])
        ELSE secQ[r]]

\* A write of the bundle ConfigMap reaches every syncer whose informer runs.
NotifyConfigMap(cm) ==
    [r \in Replicas |-> IF spc[r] = "watch" THEN Append(cmQ[r], cm) ELSE cmQ[r]]

\* A step of sync returns: sync goes on to the next step or returns itself.
StepReturns(r, step, err) ==
    LET next == sync(step, err)
    IN /\ mpc' = [mpc EXCEPT ![r] = next]
       /\ trace' = [trace EXCEPT ![r] = IF next = "idle" THEN @ ELSE Append(@, next)]
       /\ failedAt' = [failedAt EXCEPT ![r] = IF err THEN step ELSE @]
       /\ IF next = "idle"
          THEN /\ lastTick' = [lastTick EXCEPT ![r] = IF err THEN "failed" ELSE "ok"]
               /\ okTicks' = [okTicks EXCEPT ![r] = IF ~err /\ @ < 2 THEN @ + 1 ELSE @]
               /\ changed' = IF err THEN changed ELSE IF changed = "during" THEN "before" ELSE "no"
               /\ doneAt' = [doneAt EXCEPT ![r] = now]
          ELSE UNCHANGED <<lastTick, okTicks, changed, doneAt>>

\* Manager.Start leaving at the first sync that returned an error.
loopReturnOnError(result) == IF result = "failed" THEN "return" ELSE "select"

\* Manager.Start after m.sync returned, initial or periodic: the error is
\* logged and the loop goes (back) to its select.
loopAfterSync(result) == "select"

\* Manager.Start's loop calls sync: immediately, then on every tick of the ticker.
SyncEnter(r) ==
    /\ mpc[r] = "idle"
    /\ loopAfterSync(lastTick[r]) = "select"
    /\ mpc' = [mpc EXCEPT ![r] = "ensureCA"]
    /\ trace' = [trace EXCEPT ![r] = <<"ensureCA">>]
    /\ tickWrites' = [tickWrites EXCEPT ![r] = 0]
    /\ failedAt' = [failedAt EXCEPT ![r] = ""]
    /\ quiet' = [quiet EXCEPT ![r] = lastTick[r] = "ok" /\ changed = "no"]
    /\ changed' = IF changed = "during" THEN "before" ELSE changed
    /\ dropped' = [dropped EXCEPT ![r] = FALSE]
    /\ rot' = [rot EXCEPT ![r] = NoRot]
    /\ UNCHANGED <<mca, mbundle, lastTick, okTicks, cmBefore, doneAt, edits>>
    /\ UNCHANGED <<clusterVars, provVars, sysVars, leVars>>

SyncBegin(r) == leaderCtx[r] = "live" /\ SyncEnter(r)

\* The loop's select finds ctx.Done() closed and a tick of the ticker waiting,
\* and takes the tick: one more sync runs, with the cancelled context.
SyncBeginCancelled(r) == leaderCtx[r] = "cancelled" /\ mStart[r] = "running" /\ SyncEnter(r)

\* ensureCA, first half: lister Get; createSecret when not found.
EnsureCALookup(r) ==
    /\ mpc[r] = "ensureCA"
    /\ IF IsNotFound(caSecret)
       THEN /\ CtxLive(r)
            /\ caSecret' = createSecret
            /\ tickWrites' = [tickWrites EXCEPT ![r] = @ + 1]
       ELSE UNCHANGED <<caSecret, tickWrites>>
    /\ mpc' = [mpc EXCEPT ![r] = "ensureCA.rotate"]
    /\ UNCHANGED <<mca, mbundle, trace, failedAt, lastTick, okTicks, quiet, changed, cmBefore,
                   dropped, doneAt, edits, rot>>
    /\ UNCHANGED <<now, cfg, certSecret, bundleCM, nextSerial, cas, provVars, sysVars, leVars>>

\* ensureCA, second half: sr.EnsureSigningCertKeyPair; sync receives the signer.
EnsureCARotate(r) ==
    /\ mpc[r] = "ensureCA.rotate"
    /\ caSecret.exists
    /\ IF needNewSigningCertKeyPair(caSecret, cfg.CARefresh, now)
       THEN /\ CtxLive(r)
            /\ nextSerial <= MaxMint
            /\ caSecret' = SecretWith(NewSigningCert(nextSerial, cfg.CAValidity, now))
            /\ nextSerial' = nextSerial + 1
            /\ tickWrites' = [tickWrites EXCEPT ![r] = @ + 1]
       ELSE UNCHANGED <<caSecret, nextSerial, tickWrites>>
    /\ mca' = [mca EXCEPT ![r] = caSecret'.cert]
    /\ cas' = cas \cup {caSecret'.cert}
    /\ rot' = [rot EXCEPT ![r] =
                 [why |-> IF ~needNewSigningCertKeyPair(caSecret, cfg.CARefresh, now) THEN "kept"
                          ELSE IF ~UsableCA(caSecret) THEN "unusable"
                          ELSE IF now >= caSecret.cert.na THEN "expired"
                          ELSE "refresh",
                  old |-> caSecret.cert,
                  servingWas |-> certSecret]]
    /\ StepReturns(r, "ensureCA", FALSE)
    /\ UNCHANGED <<mbundle, quiet, cmBefore, dropped, edits>>
    /\ UNCHANGED <<now, cfg, certSecret, bundleCM, provVars, sysVars, leVars>>

\* ensureCABundle: create or update the ConfigMap; sync receives the bundle.
EnsureCABundle(r) ==
    /\ mpc[r] = "ensureCABundle"
    /\ LET target == ensureCABundle(bundleCM, mca[r], now)
       IN /\ IF BundleNeedsWrite(bundleCM, target)
             THEN /\ CtxLive(r)
                  /\ bundleCM' = CMWith(target)
                  /\ tickWrites' = [tickWrites EXCEPT ![r] = @ + 1]
             ELSE UNCHANGED <<bundleCM, tickWrites>>
          /\ mbundle' = [mbundle EXCEPT ![r] = target]
          /\ cmBefore' = [cmBefore EXCEPT ![r] = ParseCertsPEM(bundleCM)]
          /\ dropped' = [dropped EXCEPT ![r] =
                           \E c \in Range(ParseCertsPEM(bundleCM)) :
                               c.na > now /\ ~(c \in Range(target))]
    /\ StepReturns(r, "ensureCABundle", FALSE)
    /\ UNCHANGED <<mca, quiet, edits, rot>>
    /\ cmQ' = IF bundleCM' # bundleCM THEN NotifyConfigMap(bundleCM') ELSE cmQ
    /\ UNCHANGED <<now, cfg, caSecret, certSecret, nextSerial, cas, provVars, leVars>>
    /\ UNCHANGED <<started, ppc, secQ, spc, hooks, whc>>

\* ensureServingCert, first half: lister Get; createSecret when not found.
EnsureServingLookup(r) ==
    /\ mpc[r] = "ensureServingCert"
    /\ IF IsNotFound(certSecret)
       THEN /\ CtxLive(r)
            /\ certSecret' = createSecret
            /\ tickWrites' = [tickWrites EXCEPT ![r] = @ + 1]
       ELSE UNCHANGED <<certSecret, tickWrites>>
    /\ mpc' = [mpc EXCEPT ![r] = "ensureServingCert.rotate"]
    /\ UNCHANGED <<mca, mbundle, trace, failedAt, lastTick, okTicks, quiet, changed, cmBefore,
                   dropped, doneAt, edits, rot>>
    /\ secQ' = IF certSecret' # certSecret THEN NotifySecret("add", certSecret') ELSE secQ
    /\ UNCHANGED <<now, cfg, caSecret, bundleCM, nextSerial, cas, provVars, leVars>>
    /\ UNCHANGED <<started, ppc, spc, cmQ, hooks, whc>>

\* ensureServingCert, second half: tr.EnsureTargetCertKeyPair(ctx, ca, bundle).
EnsureServingRotate(r) ==
    /\ mpc[r] = "ensureServingCert.rotate"
    /\ certSecret.exists
    /\ IF needNewTargetCertKeyPair(certSecret, ServingBundleArg(mca[r], mbundle[r]),
                                   cfg.CertRefresh, now)
       THEN /\ CtxLive(r)
            /\ nextSerial <= MaxMint
            /\ certSecret' = SecretWith(NewServingCert(nextSerial, mca[r], cfg.CertValidity, now))
            /\ nextSerial' = nextSerial + 1
            /\ tickWrites' = [tickWrites EXCEPT ![r] = @ + 1]
       ELSE UNCHANGED <<certSecret, nextSerial, tickWrites>>
    /\ StepReturns(r, "ensureServingCert", FALSE)
    /\ UNCHANGED <<mca, mbundle, quiet, cmBefore, dropped, edits, rot>>
    /\ secQ' = IF certSecret' # certSecret THEN NotifySecret("update", certSecret') ELSE secQ
    /\ UNCHANGED <<now, cfg, caSecret, bundleCM, cas, provVars, leVars>>
    /\ UNCHANGED <<started, ppc, spc, cmQ, hooks, whc>>

\* A cluster-API call of the current step returns an error: the step returns
\* it to sync.
SyncStepFails(r) ==
    /\ mpc[r] # "idle"
    /\ StepReturns(r, StepOf(mpc[r]), TRUE)
    /\ UNCHANGED <<mca, mbundle, tickWrites, quiet, cmBefore, dropped, edits, rot>>
    /\ UNCHANGED <<clusterVars, provVars, sysVars, leVars>>

\* Time passes between ticks (a tick takes far less than one unit of time).
AdvanceTime ==
    /\ now < MaxTime
    /\ \A r \in Replicas : mpc[r] = "idle"
    /\ now' = now + 1
    /\ changed' = IF SomethingDue(now + 1) THEN "before" ELSE changed
    /\ UNCHANGED <<cfg, caSecret, certSecret, bundleCM, nextSerial, cas>>
    /\ UNCHANGED <<mpc, mca, mbundle, trace, failedAt, tickWrites, lastTick, okTicks, quiet,
                   cmBefore, dropped, doneAt, edits, rot>>
    /\ UNCHANGED <<provVars, sysVars, leVars>>

\* Someone outside the system deletes the CA Secret.
DeleteCASecret ==
    /\ caSecret.exists
    /\ edits < MaxEdits
    /\ edits' = edits + 1
    /\ UNCHANGED rot
    /\ caSecret' = AbsentSecret
    /\ changed' = IF \E r \in Replicas : mpc[r] # "idle" THEN "during" ELSE "before"
    /\ quiet' = [r \in Replicas |-> FALSE]
    /\ UNCHANGED <<now, cfg, certSecret, bundleCM, nextSerial, cas>>
    /\ UNCHANGED <<mpc, mca, mbundle, trace, failedAt, tickWrites, lastTick, okTicks,
                   cmBefore, dropped, doneAt>>
    /\ UNCHANGED <<provVars, sysVars, leVars>>

\* Someone outside the system deletes the serving Secret.
DeleteCertSecret ==
    /\ certSecret.exists
    /\ edits < MaxEdits
    /\ edits' = edits + 1
    /\ UNCHANGED rot
    /\ certSecret' = AbsentSecret
    /\ changed' = IF \E r \in Replicas : mpc[r] # "idle" THEN "during" ELSE "before"
    /\ quiet' = [r \in Replicas |-> FALSE]
    /\ UNCHANGED <<now, cfg, caSecret, bundleCM, nextSerial, cas>>
    /\ UNCHANGED <<mpc, mca, mbundle, trace, failedAt, tickWrites, lastTick, okTicks,
                   cmBefore, dropped, doneAt>>
    /\ secQ' = NotifySecret("delete", certSecret)
    /\ UNCHANGED <<provVars, leVars, started, ppc, spc, cmQ, hooks, whc>>

\* ---------------------------------------------------------- RunWithContext
NoIdentity == <<"", 0>>

HostnameErr == <<"error", 0>>

\* getIdentity: POD_NAME when set, else the hostname, else "unknown".
getIdentity(e) ==
    IF e.podName # NoIdentity THEN e.podName
    ELSE IF e.hostname = HostnameErr THEN <<"unknown", 0>>
    ELSE e.hostname

\* What a pod of the deployment can find in its environment: POD_NAME unset
\* or the pod's own name, os.Hostname failing or returning the pod's own host.
Envs(r) == [podName : {NoIdentity, <<"pod", r>>}, hostname : {HostnameErr, <<"host", r>>}]

WebhookTypes == {"validating", "mutating"}

\* determineWebhookRefs: one ref per hook type registered.
determineWebhookRefs(hs) == hs \cap WebhookTypes

EmptyCABundle == [data |-> "empty", certs |-> <<>>]

\* The bytes of ca-bundle.crt.
Content(cm) == [data |-> cm.data, certs |-> cm.certs]

\* RunWithContext up to the select: the provider goroutine is launched, the
\* goroutines of the two servers, then (leader election being enabled) the
\* goroutine of leaderelection.Run.
RunWithContext(r) ==
    /\ ~started[r] /\ le[r] = "off"
    /\ started' = [started EXCEPT ![r] = TRUE]
    /\ ppc' = [ppc EXCEPT ![r] = "load"]
    /\ srvpc' = [srvpc EXCEPT ![r] = [s \in Servers |-> "serving"]]
    /\ le' = [le EXCEPT ![r] = "acquiring"]
    /\ UNCHANGED <<secQ, spc, cmQ, hooks, whc>>
    /\ UNCHANGED <<env, lcfg, lease, lnow, observed, lastRenew, nextTry, leaderCtx, bootVars, httpVars, rootCtx, sel,
                   runVars, syncVars>>
    /\ UNCHANGED <<provVars, clusterVars, mgrVars>>

\* Provider.Start: loadCertificate reads the Secret and, when found, hands it
\* to onSecretUpdate.
ProviderLoad(r) ==
    /\ ppc[r] = "load"
    /\ IF certSecret.exists
       THEN ProviderUpsert(r, "load", AsEvent(certSecret))
       ELSE UNCHANGED <<provVars, clusterVars, mgrVars, leVars, started, spc, cmQ, hooks, whc>>
    /\ ppc' = [ppc EXCEPT ![r] = "sync"]
    /\ UNCHANGED secQ

\* Provider.Start: factory.Start and WaitForCacheSync; the informer's initial
\* list hands over an add for the Secret if it exists.
ProviderWatch(r) ==
    /\ ppc[r] = "sync" /\ wpc[r] = "idle"
    /\ ppc' = [ppc EXCEPT ![r] = "watch"]
    /\ secQ' = [secQ EXCEPT ![r] =
                  IF certSecret.exists THEN <<[type |-> "add", obj |-> AsEvent(certSecret)]>>
                  ELSE <<>>]
    /\ UNCHANGED <<started, spc, cmQ, hooks, whc>>
    /\ UNCHANGED <<provVars, clusterVars, mgrVars, leVars>>

\* The informer goroutine hands the next event to AddFunc/UpdateFunc/DeleteFunc.
ProviderDeliver(r) ==
    /\ ppc[r] = "watch" /\ secQ[r] # <<>>
    /\ LET ev == Head(secQ[r])
       IN IF ev.type = "delete" THEN ProviderDelete(r, ev.obj.name)
          ELSE ProviderUpsert(r, ev.type, ev.obj)
    /\ secQ' = [secQ EXCEPT ![r] = Tail(@)]
    /\ UNCHANGED ppc

\* ----------------------------------------------------------- cabundle.Syncer
\* The patch touching the first webhook only.
PatchFirstEntry(entries, caBundle) ==
    [i \in 1..Len(entries) |-> IF i = 1 THEN caBundle ELSE entries[i]]

\* patchValidatingWebhook / patchMutatingWebhook: one "replace" of
\* /webhooks/i/clientConfig/caBundle for every index i of current.Webhooks.
PatchedEntries(entries, caBundle) == [i \in 1..Len(entries) |-> caBundle]

\* onConfigMapUpdate: skip when ca-bundle.crt is missing or empty, else
\* patchWebhook for every ref (a configuration that is not found is skipped).
onConfigMapUpdate(cm, w) ==
    IF cm.data \in {"missing", "empty"} THEN w
    ELSE [k \in WebhookTypes |->
            IF k \in determineWebhookRefs(hooks) /\ w[k].exists
            THEN [w[k] EXCEPT !.entries = PatchedEntries(@, Content(cm))]
            ELSE w[k]]

\* Syncer.Start under leaderCtx: syncCABundle (Get, then onConfigMapUpdate when
\* found), then the informer starts; its initial list hands over an add for
\* the ConfigMap if it exists.
SyncerStart(r) ==
    /\ leaderCtx[r] = "live" /\ spc[r] = "off"
    /\ whc' = IF bundleCM.exists THEN onConfigMapUpdate(bundleCM, whc) ELSE whc
    /\ spc' = [spc EXCEPT ![r] = "watch"]
    /\ cmQ' = [cmQ EXCEPT ![r] = IF bundleCM.exists THEN <<bundleCM>> ELSE <<>>]
    /\ UNCHANGED <<started, ppc, secQ, hooks>>
    /\ UNCHANGED <<provVars, clusterVars, mgrVars, leVars>>

\* The informer goroutine hands the next ConfigMap to AddFunc/UpdateFunc.
SyncerDeliver(r) ==
    /\ spc[r] = "watch" /\ cmQ[r] # <<>>
    /\ whc' = IF CtxLive(r) THEN onConfigMapUpdate(Head(cmQ[r]), whc) ELSE whc
    /\ cmQ' = [cmQ EXCEPT ![r] = Tail(@)]
    /\ UNCHANGED <<started, ppc, secQ, spc, hooks>>
    /\ UNCHANGED <<provVars, clusterVars, mgrVars, leVars>>

\* ------------------------------------------------------------ leaderelection
NoLease == [holder |-> NoIdentity, renew |-> 0]

\* The configurations of the lease timing with
\* RetryPeriod < RenewDeadline < LeaseDuration.
LeaseConfigs ==
    {c \in [LeaseDuration : 1..MaxLease, RenewDeadline : 1..MaxLease, RetryPeriod : 1..MaxLease] :
        c.RetryPeriod < c.RenewDeadline /\ c.RenewDeadline < c.LeaseDuration}

\* The elector's view after reading the Lease: observedTime moves when the
\* record differs from the one observed before.
Observe(r) == IF lease # observed[r].rec THEN [rec |-> lease, at |-> lnow] ELSE observed[r]

\* The Lease is held by someone else and, by this elector's clock, not expired.
HeldByOther(r) ==
    /\ lease.holder # NoIdentity
    /\ Observe(r).at + lcfg.LeaseDuration > lnow
    /\ lease.holder # getIdentity(env[r])

\* The record an elector writes when it acquires or renews.
OwnRecord(r) == [holder |-> getIdentity(env[r]), renew |-> lnow]

\* leaderelection.Run, acquire loop: one attempt.  On success the elector calls
\* OnStartedLeading(leaderCtx), which calls startCertManagement(leaderCtx, ...).
TryAcquire(r) ==
    /\ le[r] = "acquiring" /\ lnow >= nextTry[r]
    /\ nextTry' = [nextTry EXCEPT ![r] = lnow + lcfg.RetryPeriod]
    /\ IF HeldByOther(r)
       THEN /\ observed' = [observed EXCEPT ![r] = Observe(r)]
            /\ UNCHANGED <<lease, le, lastRenew, leaderCtx>>
       ELSE /\ lease' = OwnRecord(r)
            /\ observed' = [observed EXCEPT ![r] = [rec |-> OwnRecord(r), at |-> lnow]]
            /\ le' = [le EXCEPT ![r] = "leading"]
            /\ lastRenew' = [lastRenew EXCEPT ![r] = lnow]
            /\ leaderCtx' = [leaderCtx EXCEPT ![r] = "live"]
    /\ UNCHANGED <<env, lcfg, lnow, bootVars, httpVars, stopVars, runVars, syncVars>>
    /\ UNCHANGED <<provVars, clusterVars, mgrVars, sysVars>>

\* Renew loop: one attempt before the renew deadline.
Renew(r) ==
    /\ le[r] = "leading" /\ lnow >= nextTry[r]
    /\ lnow < lastRenew[r] + lcfg.RenewDeadline
    /\ nextTry' = [nextTry EXCEPT ![r] = lnow + lcfg.RetryPeriod]
    /\ IF HeldByOther(r)
       THEN /\ observed' = [observed EXCEPT ![r] = Observe(r)]
            /\ UNCHANGED <<lease, lastRenew>>
       ELSE /\ lease' = OwnRecord(r)
            /\ observed' = [observed EXCEPT ![r] = [rec |-> OwnRecord(r), at |-> lnow]]
            /\ lastRenew' = [lastRenew EXCEPT ![r] = lnow]
    /\ UNCHANGED <<env, lcfg, lnow, le, leaderCtx, bootVars, httpVars, stopVars, runVars, syncVars>>
    /\ UNCHANGED <<provVars, clusterVars, mgrVars, sysVars>>

\* The Lease after the elector gave it up (ReleaseOnCancel: true).
Released(r) ==
    IF lease.holder = getIdentity(env[r]) THEN [holder |-> NoIdentity, renew |-> lnow] ELSE lease

\* leaderelection.Run: the error of NewLeaderElector is returned; once
\* leaderElector.Run(ctx) has returned, for whatever cause, Run returns nil.
leaderelectionRun(cause) == IF cause = "newLeaderElector" THEN "err" ELSE "nil"

\* RunWithContext's election goroutine: an error returned by
\* leaderelection.Run is sent on errCh, nil is not.
ElectionGoroutine(ch, result) == IF result = "err" THEN Append(ch, "leaderElection") ELSE ch

\* No renewal succeeded within RenewDeadline: the elector releases the Lease,
\* leaderCtx is cancelled and leaderelection.Run returns.
RenewDeadlineExceeded(r) ==
    /\ le[r] = "leading"
    /\ lnow >= lastRenew[r] + lcfg.RenewDeadline
    /\ lease' = Released(r)
    /\ le' = [le EXCEPT ![r] = "stopped"]
    /\ leaderCtx' = [leaderCtx EXCEPT ![r] = "cancelled"]
    /\ errCh' = [errCh EXCEPT ![r] = ElectionGoroutine(@, leaderelectionRun("renewDeadline"))]
    /\ UNCHANGED <<env, lcfg, lnow, observed, lastRenew, nextTry>>
    /\ UNCHANGED <<bootVars, httpVars, stopVars, killedAt, exit, mStart, sStart>>
    /\ UNCHANGED syncVars
    /\ UNCHANGED <<provVars, clusterVars, mgrVars, sysVars>>

\* ctx is cancelled (the process is told to stop): every goroutine of the
\* replica ends; a leader releases the Lease.
Shutdown(r) ==
    /\ started[r]
    /\ started' = [started EXCEPT ![r] = FALSE]
    /\ ppc' = [ppc EXCEPT ![r] = "off"]
    /\ spc' = [spc EXCEPT ![r] = "off"]
    /\ secQ' = [secQ EXCEPT ![r] = <<>>]
    /\ cmQ' = [cmQ EXCEPT ![r] = <<>>]
    /\ lease' = IF le[r] = "leading" THEN Released(r) ELSE lease
    /\ le' = [le EXCEPT ![r] = "stopped"]
    /\ leaderCtx' = [leaderCtx EXCEPT ![r] = IF @ = "live" THEN "cancelled" ELSE @]
    /\ UNCHANGED <<hooks, whc, env, lcfg, lnow, observed, lastRenew, nextTry, bootVars, httpVars, stopVars, runVars, syncVars>>
    /\ UNCHANGED <<provVars, clusterVars, mgrVars>>

\* Lease time passes; a leader acts on its renew deadline when it is reached.
LeaseTick ==
    /\ lnow < MaxLeaseTime
    /\ \A r \in Replicas : le[r] = "leading" => lnow < lastRenew[r] + lcfg.RenewDeadline
    /\ lnow' = lnow + 1
    /\ UNCHANGED <<env, lcfg, lease, le, observed, lastRenew, nextTry, leaderCtx, bootVars, httpVars, stopVars, runVars, syncVars>>
    /\ UNCHANGED <<provVars, clusterVars, mgrVars, sysVars>>

\* Nothing of the deployment runs yet; no webhook configuration is modelled.
InitSysOff ==
    /\ started = [r \in Replicas |-> FALSE]
    /\ ppc = [r \in Replicas |-> "off"]
    /\ secQ = [r \in Replicas |-> <<>>]
    /\ spc = [r \in Replicas |-> "off"]
    /\ cmQ = [r \in Replicas |-> <<>>]
    /\ hooks = {"validating"}
    /\ whc = [k \in WebhookTypes |-> [exists |-> FALSE, entries |-> <<>>]]

\* The syncer is in no pass and has attempted nothing.
NoPass == [pc |-> "idle", cm |-> EmptyCABundle, todo |-> <<>>, n |-> 0, done |-> <<>>]

\* ctx is live and no server was started.
InitLive ==
    /\ rootCtx = [r \in Replicas |-> "live"]
    /\ srvpc = [r \in Replicas |-> [s \in Servers |-> "off"]]
    /\ sel = [r \in Replicas |-> "before"]
    /\ probe = NoProbe
    /\ adm = NoAdmission

\* RunWithContext got past its checks with a Config that sets the name only.
InitBooted ==
    /\ InitLive
    /\ userCfg = [ZeroConfig EXCEPT !["Name"] = "wh"]
    /\ userHeap = FreeHeap
    /\ osEnv = NoEnv
    /\ webhooks = <<Hook(<<"/", "a">>, TRUE, "Validating")>>
    /\ bootCfg = applyDefaults(applyEnvConfig(userCfg, userHeap, osEnv).cfg)
    /\ heap = applyEnvConfig(userCfg, userHeap, osEnv).heap
    /\ bpc = "running"
    /\ bootErr = ""
    /\ effects = {"client", "components"}

\* Nobody was killed, RunWithContext has not returned, nothing started under
\* a leaderCtx, errCh is empty.
InitIdle ==
    /\ killedAt = -1
    /\ exit = [r \in Replicas |-> "none"]
    /\ mStart = [r \in Replicas |-> "off"]
    /\ sStart = [r \in Replicas |-> "off"]
    /\ errCh = [r \in Replicas |-> <<>>]
    /\ pass = [r \in Replicas |-> NoPass]
    /\ wedits = 0
    /\ late = [k \in WebhookTypes |-> [applied |-> FALSE, at |-> 0, got |-> FALSE, running |-> FALSE]]

\* The state the specifications of the running deployment start from.
InitRun == InitIdle /\ InitBooted

\* No Lease yet, every elector before its start.
InitElectors ==
    /\ lease = NoLease
    /\ lnow = 0
    /\ le = [r \in Replicas |-> "off"]
    /\ observed = [r \in Replicas |-> [rec |-> NoLease, at |-> 0]]
    /\ lastRenew = [r \in Replicas |-> 0]
    /\ nextTry = [r \in Replicas |-> 0]
    /\ InitRun

\* Replica 1 leads throughout: its leaderCtx is live.
InitLeader1 ==
    /\ InitElectors
    /\ env = [r \in Replicas |-> [podName |-> <<"pod", r>>, hostname |-> <<"host", r>>]]
    /\ lcfg = [LeaseDuration |-> MaxLease, RenewDeadline |-> MaxLease - 1, RetryPeriod |-> 1]
    /\ leaderCtx = [r \in Replicas |-> IF r = 1 THEN "live" ELSE "none"]

CorruptCM == [exists |-> TRUE, data |-> "corrupt", certs |-> <<>>]

\* Replica 1 is the leader and runs the Manager.
CMBegin   == SyncBegin(1)
CMCALookup == EnsureCALookup(1)
CMCARotate == EnsureCARotate(1)
CMBundle  == EnsureCABundle(1)
CMServingLookup == EnsureServingLookup(1)
CMServingRotate == EnsureServingRotate(1)
CMFail    == SyncStepFails(1)

NextCM == CMBegin \/ CMCALookup \/ CMCARotate \/ CMBundle \/ CMServingLookup
          \/ CMServingRotate \/ CMFail \/ AdvanceTime

\* An empty namespace at time 0.
InitClusterCold ==
    /\ now = 0
    /\ cfg \in AcceptedConfigs
    /\ caSecret = AbsentSecret
    /\ certSecret = AbsentSecret
    /\ bundleCM = AbsentCM
    /\ nextSerial = 1
    /\ cas = {}

InitCM == InitProvider /\ InitManager /\ InitClusterCold /\ InitSysOff /\ InitLeader1

SpecCM == InitCM /\ [][NextCM]_vars

NextCMEdit == NextCM \/ DeleteCASecret \/ DeleteCertSecret

InitCMEdit ==
    /\ InitCM
    /\ cfg.CAValidity = MaxDur /\ cfg.CertValidity = MaxDur - 1
    /\ cfg.CARefresh = 1 /\ cfg.CertRefresh = 1

SpecCMEdit == InitCMEdit /\ [][NextCMEdit]_vars

\* Objects left behind by an earlier life of the deployment, found at StartTime:
\* each Secret absent, empty, corrupt or holding a certificate that is expired,
\* due for refresh or fresh; the ConfigMap absent, empty, corrupt or holding
\* any of the earlier CA and a foreign CA.
OldNotAfter == {StartTime, StartTime + 1, StartTime + MaxDur}

OldCA(a) == [serial |-> MaxMint + 1, nb |-> 0, na |-> a, issuer |-> MaxMint + 1]

ForeignCA(a) == [serial |-> MaxMint + 2, nb |-> 0, na |-> a, issuer |-> MaxMint + 2]

OldServing(a, i) == [serial |-> MaxMint + 3, nb |-> 0, na |-> a, issuer |-> i]

InitClusterAny ==
    /\ now = StartTime
    /\ cfg \in AcceptedConfigs
    /\ cfg.CAValidity = MaxDur /\ cfg.CertValidity = MaxDur - 1
    /\ nextSerial = 1
    /\ \E a \in OldNotAfter, b \in {StartTime, StartTime + MaxDur} :
          /\ caSecret \in {AbsentSecret, createSecret, CorruptSecret, SecretWith(OldCA(a))}
          /\ bundleCM \in {AbsentCM, CorruptCM, CMWith(<<>>), CMWith(<<OldCA(a)>>),
                            CMWith(<<ForeignCA(b)>>), CMWith(<<OldCA(a), ForeignCA(b)>>)}
          /\ certSecret \in {AbsentSecret, createSecret, CorruptSecret}
                \cup {SecretWith(OldServing(c, i)) :
                         c \in OldNotAfter, i \in {MaxMint + 1, MaxMint + 2}}
          /\ cas = {OldCA(a), ForeignCA(b)}

InitCMAny == InitProvider /\ InitManager /\ InitClusterAny /\ InitSysOff /\ InitLeader1

SpecCMAny == InitCMAny /\ [][NextCM]_vars

\* ----------------------------------------------------------- specifications
\* Replica 1's provider under an arbitrary sequence of informer events.
CPAdd    == (\E s \in EventSecrets : ProviderUpsert(1, "add", s)) /\ UNCHANGED <<ppc, secQ>>
CPUpdate == (\E s \in EventSecrets : ProviderUpsert(1, "update", s)) /\ UNCHANGED <<ppc, secQ>>
CPDelete == (\E n \in {"cert", "other"} : ProviderDelete(1, n)) /\ UNCHANGED <<ppc, secQ>>
CPStoreReady == ProviderStoreReady(1)
CPRead   == \E rd \in Readers : ReaderGetCertificate(rd, 1)

NextCP == CPAdd \/ CPUpdate \/ CPDelete \/ CPStoreReady \/ CPRead

InitCP ==
    /\ InitProvider /\ InitManager /\ InitClusterCold /\ InitSysOff /\ InitLeader1
    /\ cfg.CAValidity = MaxDur /\ cfg.CertValidity = MaxDur
    /\ cfg.CARefresh = 1 /\ cfg.CertRefresh = 1

SpecCP == InitCP /\ [][NextCP]_vars

\* A request to the readiness path of replica r, served concurrently with the
\* informer goroutine.
Readyz(r) ==
    /\ probe' = [called |-> TRUE, readyWas |-> Ready(r), installed |-> everInstalled[r],
                 deleted |-> deletedSince[r], resp |-> readyzHandler(Ready(r))]
    /\ UNCHANGED <<adm, provVars, clusterVars, mgrVars, sysVars>>
    /\ UNCHANGED <<electVars, runVars, syncVars, bootVars, stopVars>>

CPReadyz == Readyz(1)

\* The provider under its informer's events and readiness probes.
NextProbe == CPAdd \/ CPUpdate \/ CPDelete \/ CPStoreReady \/ CPReadyz

SpecProbe == InitCP /\ [][NextProbe]_vars

\* An admission request arrives at a hook's path and is answered.
ServeAdmission ==
    /\ \E req \in AdmissionRequests, a \in AdmitResults :
         adm' = [called |-> TRUE, req |-> req, admit |-> a, out |-> ServeHTTP(req, a)]
    /\ UNCHANGED <<probe, provVars, clusterVars, mgrVars, sysVars>>
    /\ UNCHANGED <<electVars, runVars, syncVars, bootVars, stopVars>>

SpecAdmission == InitCP /\ [][ServeAdmission]_vars

\* One replica started in an empty namespace, the webhook configurations
\* applied with empty caBundle; no API failure, no time passing.
InitCold ==
    /\ InitProvider /\ InitManager /\ InitClusterCold /\ InitElectors
    /\ cfg.CAValidity = MaxDur /\ cfg.CertValidity = MaxDur - 1
    /\ cfg.CARefresh = 1 /\ cfg.CertRefresh = 1
    /\ started = [r \in Replicas |-> FALSE]
    /\ ppc = [r \in Replicas |-> "off"]
    /\ secQ = [r \in Replicas |-> <<>>]
    /\ spc = [r \in Replicas |-> "off"]
    /\ cmQ = [r \in Replicas |-> <<>>]
    /\ hooks \in (SUBSET WebhookTypes) \ {{}}
    /\ \E n \in 1..MaxEntries :
          whc = [k \in WebhookTypes |->
                   IF k \in hooks
                   THEN [exists |-> TRUE, entries |-> [i \in 1..n |-> EmptyCABundle]]
                   ELSE [exists |-> FALSE, entries |-> <<>>]]
    /\ env = [r \in Replicas |-> [podName |-> <<"pod", r>>, hostname |-> <<"host", r>>]]
    /\ lcfg = [LeaseDuration |-> MaxLease, RenewDeadline |-> MaxLease - 1, RetryPeriod |-> 1]
    /\ leaderCtx = [r \in Replicas |-> "none"]

ColdRun == RunWithContext(1)
ColdProviderLoad == ProviderLoad(1)
ColdProviderWatch == ProviderWatch(1)
ColdProviderDeliver == ProviderDeliver(1)
ColdAcquire == TryAcquire(1)
ColdSyncerStart == SyncerStart(1)
ColdSyncerDeliver == SyncerDeliver(1)
ColdRead == ReaderGetCertificate(1, 1)

NextCold ==
    \/ ColdRun \/ ColdProviderLoad \/ ColdProviderWatch \/ ColdProviderDeliver
    \/ CPStoreReady \/ ColdRead
    \/ ColdAcquire \/ ColdSyncerStart \/ ColdSyncerDeliver
    \/ CMBegin \/ CMCALookup \/ CMCARotate \/ CMBundle \/ CMServingLookup \/ CMServingRotate

\* Every goroutine of the replica keeps being scheduled, the informers keep
\* handing over their events, and the ticker keeps ticking.
FairCold ==
    /\ WF_vars(ColdRun) /\ WF_vars(ColdProviderLoad) /\ WF_vars(ColdProviderWatch)
    /\ WF_vars(ColdProviderDeliver) /\ WF_vars(CPStoreReady)
    /\ WF_vars(ColdAcquire) /\ WF_vars(ColdSyncerStart) /\ WF_vars(ColdSyncerDeliver)
    /\ WF_vars(CMBegin) /\ WF_vars(CMCALookup) /\ WF_vars(CMCARotate) /\ WF_vars(CMBundle)
    /\ WF_vars(CMServingLookup) /\ WF_vars(CMServingRotate)

SpecCold == InitCold /\ [][NextCold]_vars /\ FairCold

\* The replicas of a deployment competing for the Lease.
InitLE ==
    /\ InitProvider /\ InitManager /\ InitClusterCold /\ InitSysOff /\ InitElectors
    /\ cfg.CAValidity = MaxDur /\ cfg.CertValidity = MaxDur - 1
    /\ cfg.CARefresh = 1 /\ cfg.CertRefresh = 1
    /\ env \in [Replicas -> UNION {Envs(r) : r \in Replicas}]
    /\ \A r \in Replicas : env[r] \in Envs(r)
    /\ lcfg \in LeaseConfigs
    /\ leaderCtx = [r \in Replicas |-> "none"]

LERun == \E r \in Replicas : RunWithContext(r)
LEAcquire == \E r \in Replicas : TryAcquire(r)
LERenew == \E r \in Replicas : Renew(r)
LEDeadline == \E r \in Replicas : RenewDeadlineExceeded(r)
LEShutdown == \E r \in Replicas : Shutdown(r)

NextLE == LERun \/ LEAcquire \/ LERenew \/ LEDeadline \/ LEShutdown \/ LeaseTick

SpecLE == InitLE /\ [][NextLE]_vars


\* ------------------------------------------- startCertManagement and errCh
\* OnStartedLeading(leaderCtx): startCertManagement launches the goroutines of
\* certMgr.Start(leaderCtx) and caBundleSyncer.Start(leaderCtx); both start
\* their informers and wait in WaitForCacheSync.
startCertManagement(r) ==
    /\ started[r] /\ leaderCtx[r] # "none"
    /\ mStart[r] = "off" /\ sStart[r] = "off"
    /\ mStart' = [mStart EXCEPT ![r] = "waitSync"]
    /\ sStart' = [sStart EXCEPT ![r] = "waitSync"]
    /\ UNCHANGED <<bootVars, httpVars, stopVars, killedAt, exit, errCh>>
    /\ UNCHANGED syncVars
    /\ UNCHANGED <<provVars, clusterVars, mgrVars, sysVars, electVars>>

\* Manager.Start / Syncer.Start when WaitForCacheSync returns false because
\* ctx.Done() closed first: Start returns an error, and the goroutine of
\* startCertManagement sends it on errCh.
StartInterruptedResend(pos, ch, who) == <<pos, Append(ch, who)>>

StartInterrupted(pos, ch, who) == <<"err", Append(ch, who)>>

\* Manager.Start: the informer caches synced; the immediate sync and the
\* ticker loop follow.
ManagerCacheSynced(r) ==
    /\ started[r] /\ mStart[r] = "waitSync" /\ leaderCtx[r] = "live"
    /\ mStart' = [mStart EXCEPT ![r] = "running"]
    /\ UNCHANGED <<bootVars, httpVars, stopVars, killedAt, exit, sStart, errCh>>
    /\ UNCHANGED syncVars
    /\ UNCHANGED <<provVars, clusterVars, mgrVars, sysVars, electVars>>

\* Manager.Start: leaderCtx was cancelled while WaitForCacheSync was waiting.
ManagerSyncInterrupted(r) ==
    /\ started[r] /\ mStart[r] = "waitSync" /\ leaderCtx[r] = "cancelled"
    /\ mStart' = [mStart EXCEPT ![r] = StartInterrupted(mStart[r], errCh[r], "certManager")[1]]
    /\ errCh' = [errCh EXCEPT ![r] = StartInterrupted(mStart[r], errCh[r], "certManager")[2]]
    /\ UNCHANGED <<bootVars, httpVars, stopVars, killedAt, exit, sStart>>
    /\ UNCHANGED syncVars
    /\ UNCHANGED <<provVars, clusterVars, mgrVars, sysVars, electVars>>

\* Manager.Start: the loop's select sees ctx.Done() and returns nil.
ManagerStopped(r) ==
    /\ started[r] /\ mStart[r] = "running" /\ leaderCtx[r] = "cancelled" /\ mpc[r] = "idle"
    /\ mStart' = [mStart EXCEPT ![r] = "nil"]
    /\ UNCHANGED <<bootVars, httpVars, stopVars, killedAt, exit, sStart, errCh>>
    /\ UNCHANGED syncVars
    /\ UNCHANGED <<provVars, clusterVars, mgrVars, sysVars, electVars>>

\* Syncer.Start: the ConfigMap informer synced; Start blocks on ctx.Done().
SyncerCacheSynced(r) ==
    /\ started[r] /\ sStart[r] = "waitSync" /\ leaderCtx[r] = "live"
    /\ sStart' = [sStart EXCEPT ![r] = "running"]
    /\ UNCHANGED <<bootVars, httpVars, stopVars, killedAt, exit, mStart, errCh>>
    /\ UNCHANGED syncVars
    /\ UNCHANGED <<provVars, clusterVars, mgrVars, sysVars, electVars>>

\* Syncer.Start: leaderCtx was cancelled while WaitForCacheSync was waiting.
SyncerSyncInterrupted(r) ==
    /\ started[r] /\ sStart[r] = "waitSync" /\ leaderCtx[r] = "cancelled"
    /\ sStart' = [sStart EXCEPT ![r] = StartInterrupted(sStart[r], errCh[r], "caBundleSyncer")[1]]
    /\ errCh' = [errCh EXCEPT ![r] = StartInterrupted(sStart[r], errCh[r], "caBundleSyncer")[2]]
    /\ UNCHANGED <<bootVars, httpVars, stopVars, killedAt, exit, mStart>>
    /\ UNCHANGED syncVars
    /\ UNCHANGED <<provVars, clusterVars, mgrVars, sysVars, electVars>>

\* Syncer.Start: <-ctx.Done() returns and Start returns nil.
SyncerStopped(r) ==
    /\ started[r] /\ sStart[r] = "running" /\ leaderCtx[r] = "cancelled"
    /\ sStart' = [sStart EXCEPT ![r] = "nil"]
    /\ UNCHANGED <<bootVars, httpVars, stopVars, killedAt, exit, mStart, errCh>>
    /\ UNCHANGED syncVars
    /\ UNCHANGED <<provVars, clusterVars, mgrVars, sysVars, electVars>>

\* RunWithContext's select receives from errCh and returns the error; Run
\* returns it, its deferred cancel ends ctx and with it every goroutine of the
\* process: provider, servers, elector.
RunReturnsErr(r) ==
    /\ started[r] /\ exit[r] = "none" /\ errCh[r] # <<>>
    /\ exit' = [exit EXCEPT ![r] = "err"]
    /\ errCh' = [errCh EXCEPT ![r] = Tail(@)]
    /\ started' = [started EXCEPT ![r] = FALSE]
    /\ ppc' = [ppc EXCEPT ![r] = "off"]
    /\ spc' = [spc EXCEPT ![r] = "off"]
    /\ secQ' = [secQ EXCEPT ![r] = <<>>]
    /\ cmQ' = [cmQ EXCEPT ![r] = <<>>]
    /\ lease' = IF le[r] = "leading" THEN Released(r) ELSE lease
    /\ le' = [le EXCEPT ![r] = "stopped"]
    /\ leaderCtx' = [leaderCtx EXCEPT ![r] = IF @ = "live" THEN "cancelled" ELSE @]
    /\ UNCHANGED <<hooks, whc, env, lcfg, lnow, observed, lastRenew, nextTry>>
    /\ UNCHANGED <<bootVars, httpVars, stopVars, killedAt, mStart, sStart>>
    /\ UNCHANGED syncVars
    /\ UNCHANGED <<provVars, clusterVars, mgrVars>>

\* Replicas with their own identities gaining and losing the Lease while the
\* components started under leaderCtx come up.
InitLoss ==
    /\ InitProvider /\ InitManager /\ InitClusterCold /\ InitSysOff /\ InitElectors
    /\ cfg.CAValidity = MaxDur /\ cfg.CertValidity = MaxDur - 1
    /\ cfg.CARefresh = 1 /\ cfg.CertRefresh = 1
    /\ env = [r \in Replicas |-> [podName |-> <<"pod", r>>, hostname |-> <<"host", r>>]]
    /\ lcfg \in LeaseConfigs
    /\ leaderCtx = [r \in Replicas |-> "none"]

LossRun == \E r \in Replicas : RunWithContext(r)
LossProviderLoad == \E r \in Replicas : ProviderLoad(r)
LossProviderWatch == \E r \in Replicas : ProviderWatch(r)
LossAcquire == \E r \in Replicas : started[r] /\ TryAcquire(r)
LossRenew == \E r \in Replicas : started[r] /\ Renew(r)
LossDeadline == \E r \in Replicas : started[r] /\ RenewDeadlineExceeded(r)
LossStartCertManagement == \E r \in Replicas : startCertManagement(r)
LossManagerSynced == \E r \in Replicas : ManagerCacheSynced(r)
LossManagerInterrupted == \E r \in Replicas : ManagerSyncInterrupted(r)
LossManagerStopped == \E r \in Replicas : ManagerStopped(r)
LossSyncerSynced == \E r \in Replicas : SyncerCacheSynced(r)
LossSyncerInterrupted == \E r \in Replicas : SyncerSyncInterrupted(r)
LossSyncerStopped == \E r \in Replicas : SyncerStopped(r)
LossRunReturns == \E r \in Replicas : RunReturnsErr(r)

NextLoss ==
    \/ LossRun \/ LossProviderLoad \/ LossProviderWatch
    \/ LossAcquire \/ LossRenew \/ LossDeadline \/ LeaseTick
    \/ LossStartCertManagement
    \/ LossManagerSynced \/ LossManagerInterrupted \/ LossManagerStopped
    \/ LossSyncerSynced \/ LossSyncerInterrupted \/ LossSyncerStopped
    \/ LossRunReturns

SpecLoss == InitLoss /\ [][NextLoss]_vars

\* ------------------------------------- cabundle.Syncer, one API call a step
\* s.webhookRefs in the order determineWebhookRefs built it.
RefSeq(hs) == SelectSeq(<<"validating", "mutating">>, LAMBDA k : k \in determineWebhookRefs(hs))

\* onConfigMapUpdate without its test of ca-bundle.crt.
HasBundleUnchecked(cm) == TRUE

\* onConfigMapUpdate: ca-bundle.crt is present and not empty.
HasBundle(cm) == ~(cm.data \in {"missing", "empty"})

\* onConfigMapUpdate entering its loop over s.webhookRefs.
BeginPass(cm) ==
    [pc |-> "get", cm |-> Content(cm), todo |-> RefSeq(hooks), n |-> 0, done |-> <<>>]

\* The loop of onConfigMapUpdate leaving at the first ref whose patch failed.
AbortOnError(p, res) ==
    [p EXCEPT !.done = Append(@, <<Head(p.todo), res>>),
              !.todo = IF res \in {"getErr", "patchErr"} THEN <<>> ELSE Tail(@),
              !.pc = IF res \in {"getErr", "patchErr"} \/ Tail(p.todo) = <<>> THEN "idle" ELSE "get"]

\* The loop of onConfigMapUpdate: whatever patchWebhook returned is logged and
\* the loop goes on with the next ref.
NextRef(p, res) ==
    [p EXCEPT !.done = Append(@, <<Head(p.todo), res>>),
              !.todo = Tail(@),
              !.pc = IF Tail(p.todo) = <<>> THEN "idle" ELSE "get"]

\* The JSON patch built from the GET: one "replace" of
\* /webhooks/i/clientConfig/caBundle for each of the n entries the GET saw.
\* It applies when every path exists.
ReplaceApplies(entries, n) == n <= Len(entries)

ApplyReplaceOps(entries, n, caBundle) ==
    [i \in 1..Len(entries) |-> IF i <= n THEN caBundle ELSE entries[i]]

\* The pass moves on; when the initial sync of Start is over, Start goes on
\* to start the informer, whose initial list hands over the ConfigMap.
SetPass(r, p) ==
    /\ pass' = [pass EXCEPT ![r] = p]
    /\ IF p.pc = "idle" /\ spc[r] = "initial"
       THEN /\ spc' = [spc EXCEPT ![r] = "watch"]
            /\ cmQ' = [cmQ EXCEPT ![r] = IF bundleCM.exists THEN <<bundleCM>> ELSE <<>>]
       ELSE UNCHANGED <<spc, cmQ>>

\* Syncer.Start: syncCABundle gets the ConfigMap and, when found, calls
\* onConfigMapUpdate; then the informer is started.
SyncerStartPass(r) ==
    /\ leaderCtx[r] = "live" /\ spc[r] = "off"
    /\ IF bundleCM.exists /\ HasBundle(bundleCM)
       THEN /\ pass' = [pass EXCEPT ![r] = BeginPass(bundleCM)]
            /\ spc' = [spc EXCEPT ![r] = "initial"]
            /\ UNCHANGED cmQ
       ELSE /\ spc' = [spc EXCEPT ![r] = "watch"]
            /\ cmQ' = [cmQ EXCEPT ![r] = IF bundleCM.exists THEN <<bundleCM>> ELSE <<>>]
            /\ UNCHANGED pass
    /\ UNCHANGED <<started, ppc, secQ, hooks, whc, wedits, late>>
    /\ UNCHANGED <<provVars, clusterVars, mgrVars, electVars, bootVars, httpVars, stopVars, runVars>>

\* AddFunc / UpdateFunc of the syncer's informer: onConfigMapUpdate.
SyncerDeliverPass(r) ==
    /\ spc[r] = "watch" /\ cmQ[r] # <<>> /\ pass[r].pc = "idle"
    /\ pass' = [pass EXCEPT ![r] = IF HasBundle(Head(cmQ[r])) THEN BeginPass(Head(cmQ[r])) ELSE @]
    /\ cmQ' = [cmQ EXCEPT ![r] = Tail(@)]
    /\ UNCHANGED <<started, ppc, secQ, spc, hooks, whc, wedits, late>>
    /\ UNCHANGED <<provVars, clusterVars, mgrVars, electVars, bootVars, httpVars, stopVars, runVars>>

\* patchValidatingWebhook / patchMutatingWebhook, the GET: an error is
\* returned, NotFound returns nil, else the number of webhooks is taken.
PatchGet(r) ==
    /\ pass[r].pc = "get"
    /\ \E fail \in BOOLEAN :
          LET k == Head(pass[r].todo)
          IN IF fail \/ ~CtxLive(r) THEN SetPass(r, NextRef(pass[r], "getErr"))
             ELSE IF ~whc[k].exists THEN SetPass(r, NextRef(pass[r], "notfound"))
             ELSE SetPass(r, [pass[r] EXCEPT !.pc = "patch", !.n = Len(whc[k].entries)])
    /\ late' = [k \in WebhookTypes |->
                 IF k = Head(pass[r].todo) /\ pass'[r].pc = "patch"
                 THEN [late[k] EXCEPT !.got = late[k].applied] ELSE late[k]]
    /\ UNCHANGED <<started, ppc, secQ, hooks, whc, wedits>>
    /\ UNCHANGED <<provVars, clusterVars, mgrVars, electVars, bootVars, httpVars, stopVars, runVars>>

\* patchValidatingWebhook / patchMutatingWebhook, the PATCH of the document
\* built from the GET, applied to the object as it is now.
PatchSubmit(r) ==
    /\ pass[r].pc = "patch"
    /\ \E fail \in BOOLEAN :
          LET k == Head(pass[r].todo)
          IN IF fail \/ ~CtxLive(r) \/ ~whc[k].exists
                   \/ ~ReplaceApplies(whc[k].entries, pass[r].n)
             THEN /\ SetPass(r, NextRef(pass[r], "patchErr"))
                  /\ UNCHANGED whc
             ELSE /\ SetPass(r, NextRef(pass[r], "ok"))
                  /\ whc' = [whc EXCEPT ![k].entries = ApplyReplaceOps(@, pass[r].n, pass[r].cm)]
    /\ UNCHANGED <<started, ppc, secQ, hooks, wedits, late>>
    /\ UNCHANGED <<provVars, clusterVars, mgrVars, electVars, bootVars, httpVars, stopVars, runVars>>

\* Someone applies a webhook configuration that was absent, with empty caBundles.
ApplyWebhookConfig(k) ==
    /\ k \in determineWebhookRefs(hooks) /\ ~whc[k].exists /\ wedits < MaxWEdits
    /\ \E n \in 1..MaxEntries :
          whc' = [whc EXCEPT ![k] = [exists |-> TRUE, entries |-> [i \in 1..n |-> EmptyCABundle]]]
    /\ wedits' = wedits + 1
    /\ late' = [late EXCEPT ![k] = [applied |-> TRUE, at |-> now, got |-> FALSE,
                                   running |-> spc[1] # "off" /\ lastTick[1] # "none"]]
    /\ UNCHANGED <<started, ppc, secQ, spc, cmQ, hooks, pass>>
    /\ UNCHANGED <<provVars, clusterVars, mgrVars, electVars, bootVars, httpVars, stopVars, runVars>>

\* Another writer adds a webhook entry to a configuration.
AddWebhookEntry(k) ==
    /\ k \in determineWebhookRefs(hooks) /\ whc[k].exists /\ wedits < MaxWEdits
    /\ Len(whc[k].entries) < MaxEntries + 1
    /\ whc' = [whc EXCEPT ![k].entries = Append(@, EmptyCABundle)]
    /\ wedits' = wedits + 1
    /\ UNCHANGED <<started, ppc, secQ, spc, cmQ, hooks, pass, late>>
    /\ UNCHANGED <<provVars, clusterVars, mgrVars, electVars, bootVars, httpVars, stopVars, runVars>>

\* Another writer removes the last webhook entry of a configuration.
RemoveWebhookEntry(k) ==
    /\ k \in determineWebhookRefs(hooks) /\ whc[k].exists /\ wedits < MaxWEdits
    /\ Len(whc[k].entries) > 1
    /\ whc' = [whc EXCEPT ![k].entries = SubSeq(@, 1, Len(@) - 1)]
    /\ wedits' = wedits + 1
    /\ UNCHANGED <<started, ppc, secQ, spc, cmQ, hooks, pass, late>>
    /\ UNCHANGED <<provVars, clusterVars, mgrVars, electVars, bootVars, httpVars, stopVars, runVars>>

\* The leader's Manager and Syncer with webhook configurations that other
\* writers apply and edit.
InitWH ==
    /\ InitProvider /\ InitManager /\ InitClusterCold /\ InitLeader1
    /\ cfg.CAValidity = MaxDur /\ cfg.CertValidity = MaxDur - 1
    /\ cfg.CARefresh = 1 /\ cfg.CertRefresh = 1
    /\ started = [r \in Replicas |-> FALSE]
    /\ ppc = [r \in Replicas |-> "off"]
    /\ secQ = [r \in Replicas |-> <<>>]
    /\ spc = [r \in Replicas |-> "off"]
    /\ cmQ = [r \in Replicas |-> <<>>]
    /\ hooks \in (SUBSET WebhookTypes) \ {{}}
    /\ \E n \in 1..MaxEntries :
          whc \in [WebhookTypes ->
                     {[exists |-> FALSE, entries |-> <<>>],
                      [exists |-> TRUE, entries |-> [i \in 1..n |-> EmptyCABundle]]}]
    /\ \A k \in WebhookTypes \ hooks : ~whc[k].exists

WHTime == now < MaxWHTime /\ AdvanceTime
WHSyncerStart == SyncerStartPass(1)
WHSyncerDeliver == SyncerDeliverPass(1)
WHGet == PatchGet(1)
WHPatch == PatchSubmit(1)
WHApply == \E k \in WebhookTypes : ApplyWebhookConfig(k)
WHAddEntry == \E k \in WebhookTypes : AddWebhookEntry(k)
WHRemoveEntry == \E k \in WebhookTypes : RemoveWebhookEntry(k)

\* Within one unit of certificate time.
NextPass ==
    \/ WHSyncerStart \/ WHSyncerDeliver \/ WHGet \/ WHPatch
    \/ WHApply \/ WHAddEntry \/ WHRemoveEntry
    \/ CMBegin \/ CMCALookup \/ CMCARotate \/ CMBundle \/ CMServingLookup \/ CMServingRotate

SpecPass == InitWH /\ [][NextPass]_vars

\* With certificate time passing between the ticks.
NextWH == NextPass \/ WHTime

SpecWH == InitWH /\ [][NextWH]_vars

\* Two replicas with their own identities; replica 1 is killed while it leads
\* and replica 2 takes over.  Every elector attempt is made when it is due, and
\* the immediate sync of Manager.Start runs before lease time passes.
FOConfigs ==
    {c \in [LeaseDuration : 1..MaxFOLease, RenewDeadline : 1..MaxFOLease,
            RetryPeriod : 1..MaxFOLease] :
        c.RetryPeriod < c.RenewDeadline /\ c.RenewDeadline < c.LeaseDuration}

\* The CA and the serving certificate replica 1 issued at time 0.
FirstCA == NewSigningCert(1, MaxDur, 0)
FirstServing == NewServingCert(2, FirstCA, MaxDur - 1, 0)

\* Replica 1 runs, holds the Lease since time 0 and has issued every object;
\* replica 2 is not started yet.
InitFO ==
    /\ InitProvider /\ InitManager /\ InitRun
    /\ now = 0
    /\ cfg = [CAValidity |-> MaxDur, CARefresh |-> 1, CertValidity |-> MaxDur - 1, CertRefresh |-> 1]
    /\ caSecret = SecretWith(FirstCA)
    /\ bundleCM = CMWith(<<FirstCA>>)
    /\ certSecret = SecretWith(FirstServing)
    /\ nextSerial = 3
    /\ cas = {FirstCA}
    /\ env = [r \in Replicas |-> [podName |-> <<"pod", r>>, hostname |-> <<"host", r>>]]
    /\ lcfg \in FOConfigs
    /\ started = [r \in Replicas |-> r = 1]
    /\ ppc = [r \in Replicas |-> IF r = 1 THEN "load" ELSE "off"]
    /\ secQ = [r \in Replicas |-> <<>>]
    /\ spc = [r \in Replicas |-> "off"]
    /\ cmQ = [r \in Replicas |-> <<>>]
    /\ hooks = {"validating"}
    /\ whc = [k \in WebhookTypes |-> [exists |-> FALSE, entries |-> <<>>]]
    /\ lease = [holder |-> <<"pod", 1>>, renew |-> 0]
    /\ lnow = 0
    /\ le = [r \in Replicas |-> IF r = 1 THEN "leading" ELSE "off"]
    /\ observed = [r \in Replicas |-> [rec |-> IF r = 1 THEN lease ELSE NoLease, at |-> 0]]
    /\ lastRenew = [r \in Replicas |-> 0]
    /\ nextTry = [r \in Replicas |-> IF r = 1 THEN lcfg.RetryPeriod ELSE 0]
    /\ leaderCtx = [r \in Replicas |-> IF r = 1 THEN "live" ELSE "none"]

\* The process of replica r is killed: nothing of it runs any more, and the
\* Lease keeps the record of its last renewal.
Kill(r) ==
    /\ \A q \in Replicas : started[q]
    /\ le[r] = "leading" /\ killedAt = -1 /\ lnow <= MaxKillTime
    /\ killedAt' = lnow
    /\ started' = [started EXCEPT ![r] = FALSE]
    /\ ppc' = [ppc EXCEPT ![r] = "off"]
    /\ secQ' = [secQ EXCEPT ![r] = <<>>]
    /\ le' = [le EXCEPT ![r] = "stopped"]
    /\ leaderCtx' = [leaderCtx EXCEPT ![r] = "cancelled"]
    /\ UNCHANGED <<spc, cmQ, hooks, whc>>
    /\ UNCHANGED <<env, lcfg, lease, lnow, observed, lastRenew, nextTry, bootVars, httpVars, stopVars, exit, mStart, sStart, errCh, syncVars>>
    /\ UNCHANGED <<provVars, clusterVars, mgrVars>>

\* Replica 2 leads (OnStartedLeading was invoked) and its Manager has completed
\* a reconcile.
TookOver == leaderCtx[2] = "live" /\ lastTick[2] = "ok" /\ mpc[2] = "idle"

\* Lease time passes once every running elector has made the attempt that was
\* due, a new leader's Manager has finished its immediate sync and the
\* providers have handled the events they were handed.  The clock
\* waits at MaxKillTime for the kill and stops when replica 2 has taken over.
FOTick ==
    /\ lnow < MaxFOTime
    /\ killedAt = -1 => lnow < MaxKillTime
    /\ ~TookOver
    /\ \A r \in Replicas :
          /\ le[r] \in {"acquiring", "leading"} => lnow < nextTry[r]
          /\ (started[r] /\ leaderCtx[r] = "live") => (mpc[r] = "idle" /\ lastTick[r] = "ok")
          /\ started[r] => (ppc[r] = "watch" /\ secQ[r] = <<>> /\ wpc[r] = "idle")
    /\ lnow' = lnow + 1
    /\ UNCHANGED <<env, lcfg, lease, le, observed, lastRenew, nextTry, leaderCtx, bootVars, httpVars, stopVars, runVars, syncVars>>
    /\ UNCHANGED <<provVars, clusterVars, mgrVars, sysVars>>

FORun == RunWithContext(2)
FOProviderLoad == \E r \in Replicas : ProviderLoad(r)
FOProviderWatch == \E r \in Replicas : ProviderWatch(r)
FOProviderDeliver == \E r \in Replicas : ProviderDeliver(r)
FOStoreReady == \E r \in Replicas : ProviderStoreReady(r)
FORead == ReaderGetCertificate(1, 2)
FOAcquire == \E r \in Replicas : TryAcquire(r)
FORenew == \E r \in Replicas : Renew(r)
FOKill == Kill(1)
FOBegin == \E r \in Replicas : started[r] /\ lastTick[r] = "none" /\ SyncBegin(r)
FOCALookup == \E r \in Replicas : started[r] /\ EnsureCALookup(r)
FOCARotate == \E r \in Replicas : started[r] /\ EnsureCARotate(r)
FOBundle == \E r \in Replicas : started[r] /\ EnsureCABundle(r)
FOServingLookup == \E r \in Replicas : started[r] /\ EnsureServingLookup(r)
FOServingRotate == \E r \in Replicas : started[r] /\ EnsureServingRotate(r)

NextFO ==
    \/ FORun \/ FOProviderLoad \/ FOProviderWatch \/ FOProviderDeliver \/ FOStoreReady
    \/ FORead \/ FOAcquire \/ FORenew \/ FOKill \/ FOTick
    \/ FOBegin \/ FOCALookup \/ FOCARotate \/ FOBundle \/ FOServingLookup \/ FOServingRotate

SpecFO == InitFO /\ [][NextFO]_vars

\* ------------------------------------------------ cancellation of the root ctx
\* ctx is cancelled. leaderCtx derives from it; leaderelection.Run stops and,
\* ReleaseOnCancel being set, a leader releases the Lease. A RunWithContext
\* parked in its select is woken by ctx.Done() and returns nil. (Parked with
\* an error in errCh it has been woken by the send and returns that error.)
CancelRoot(r) ==
    /\ rootCtx[r] = "live" /\ exit[r] = "none"
    /\ ~(sel[r] = "parked" /\ errCh[r] # <<>>)
    /\ rootCtx' = [rootCtx EXCEPT ![r] = "cancelled"]
    /\ leaderCtx' = [leaderCtx EXCEPT ![r] = IF @ = "live" THEN "cancelled" ELSE @]
    /\ lease' = IF le[r] = "leading" THEN Released(r) ELSE lease
    /\ le' = [le EXCEPT ![r] = IF @ = "off" THEN @ ELSE "stopped"]
    /\ sel' = [sel EXCEPT ![r] = IF @ = "parked" THEN "done" ELSE @]
    /\ exit' = [exit EXCEPT ![r] = IF sel[r] = "parked" THEN "nil" ELSE @]
    /\ UNCHANGED <<env, lcfg, lnow, observed, lastRenew, nextTry, srvpc>>
    /\ UNCHANGED <<bootVars, httpVars, killedAt, mStart, sStart, errCh, syncVars>>
    /\ UNCHANGED <<provVars, clusterVars, mgrVars, sysVars>>

\* select with one case ready takes it; with both ready it takes either.
selectReady(done, ch) ==
    (IF done THEN {"nil"} ELSE {}) \cup (IF ch # <<>> THEN {"err"} ELSE {})

\* RunWithContext reaches its select: it returns nil on ctx.Done(), the error
\* received from errCh, or parks when neither is ready.
RunSelect(r) ==
    /\ started[r] /\ sel[r] = "before" /\ exit[r] = "none"
    /\ LET cases == selectReady(rootCtx[r] = "cancelled", errCh[r]) IN
         IF cases = {}
         THEN /\ sel' = [sel EXCEPT ![r] = "parked"]
              /\ UNCHANGED <<exit, errCh>>
         ELSE /\ \E c \in cases :
                   /\ exit' = [exit EXCEPT ![r] = c]
                   /\ errCh' = [errCh EXCEPT ![r] = IF c = "err" THEN Tail(@) ELSE @]
              /\ sel' = [sel EXCEPT ![r] = "done"]
    /\ UNCHANGED <<rootCtx, srvpc, killedAt, mStart, sStart>>
    /\ UNCHANGED <<bootVars, httpVars, syncVars, electVars>>
    /\ UNCHANGED <<provVars, clusterVars, mgrVars, sysVars>>

\* Provider.Start: ctx.Done() closed while WaitForCacheSync was waiting; Start
\* returns an error and the goroutine of RunWithContext sends it on errCh.
ProviderSyncInterrupted(r) ==
    /\ started[r] /\ ppc[r] = "sync" /\ rootCtx[r] = "cancelled"
    /\ ppc' = [ppc EXCEPT ![r] = "stopped"]
    /\ errCh' = [errCh EXCEPT ![r] = Append(@, "certProvider")]
    /\ UNCHANGED <<started, secQ, spc, cmQ, hooks, whc>>
    /\ UNCHANGED <<stopVars, bootVars, httpVars, killedAt, exit, mStart, sStart, syncVars, electVars>>
    /\ UNCHANGED <<provVars, clusterVars, mgrVars>>

\* Provider.Start: <-ctx.Done() returns and Start returns nil.
ProviderStopped(r) ==
    /\ started[r] /\ ppc[r] = "watch" /\ rootCtx[r] = "cancelled"
    /\ ppc' = [ppc EXCEPT ![r] = "stopped"]
    /\ UNCHANGED <<started, secQ, spc, cmQ, hooks, whc>>
    /\ UNCHANGED <<stopVars, bootVars, httpVars, runVars, syncVars, electVars>>
    /\ UNCHANGED <<provVars, clusterVars, mgrVars>>

\* Server.Start (webhook or metrics): ListenAndServe failed; Start returns
\* the error and the goroutine of RunWithContext sends it on errCh.
ServerFails(r, s) ==
    /\ started[r] /\ srvpc[r][s] = "serving"
    /\ srvpc' = [srvpc EXCEPT ![r][s] = "err"]
    /\ errCh' = [errCh EXCEPT ![r] = Append(@, s)]
    /\ UNCHANGED <<rootCtx, sel, bootVars, httpVars, killedAt, exit, mStart, sStart, syncVars, electVars>>
    /\ UNCHANGED <<provVars, clusterVars, mgrVars, sysVars>>

\* Server.Start: ctx.Done() is taken and Start returns what
\* server.Shutdown returns: nil, or its error when the five seconds run out.
ServerShutdown(r, s) ==
    /\ started[r] /\ srvpc[r][s] = "serving" /\ rootCtx[r] = "cancelled"
    /\ \E ok \in BOOLEAN :
         /\ srvpc' = [srvpc EXCEPT ![r][s] = IF ok THEN "nil" ELSE "err"]
         /\ errCh' = [errCh EXCEPT ![r] = IF ok THEN @ ELSE Append(@, s)]
    /\ UNCHANGED <<rootCtx, sel, bootVars, httpVars, killedAt, exit, mStart, sStart, syncVars, electVars>>
    /\ UNCHANGED <<provVars, clusterVars, mgrVars, sysVars>>

\* One replica from the call of RunWithContext to its return.
InitStop ==
    /\ InitProvider /\ InitManager /\ InitClusterCold /\ InitSysOff /\ InitElectors
    /\ cfg = [CAValidity |-> MaxDur, CARefresh |-> 1, CertValidity |-> MaxDur - 1, CertRefresh |-> 1]
    /\ env = [r \in Replicas |-> [podName |-> <<"pod", r>>, hostname |-> <<"host", r>>]]
    /\ lcfg = [LeaseDuration |-> MaxLease, RenewDeadline |-> MaxLease - 1, RetryPeriod |-> 1]
    /\ leaderCtx = [r \in Replicas |-> "none"]

StopRun == RunWithContext(1)
StopCancel == CancelRoot(1)
StopSelect == RunSelect(1)
StopWoken == sel[1] = "parked" /\ RunReturnsErr(1)
StopProviderLoad == exit[1] = "none" /\ ProviderLoad(1)
StopProviderWatch == exit[1] = "none" /\ rootCtx[1] = "live" /\ ProviderWatch(1)
StopProviderInterrupted == ProviderSyncInterrupted(1)
StopProviderStopped == ProviderStopped(1)
StopServerFails == \E s \in Servers : exit[1] = "none" /\ ServerFails(1, s)
StopServerShutdown == \E s \in Servers : ServerShutdown(1, s)
StopAcquire == started[1] /\ rootCtx[1] = "live" /\ TryAcquire(1)
StopStartCertManagement == startCertManagement(1)
StopManagerSynced == ManagerCacheSynced(1)
StopManagerInterrupted == ManagerSyncInterrupted(1)
StopManagerStopped == ManagerStopped(1)
StopSyncerSynced == SyncerCacheSynced(1)
StopSyncerInterrupted == SyncerSyncInterrupted(1)
StopSyncerStopped == SyncerStopped(1)

NextStop ==
    \/ StopRun \/ StopCancel \/ StopSelect \/ StopWoken
    \/ StopProviderLoad \/ StopProviderWatch \/ StopProviderInterrupted \/ StopProviderStopped
    \/ StopServerFails \/ StopServerShutdown
    \/ StopAcquire \/ StopStartCertManagement
    \/ StopManagerSynced \/ StopManagerInterrupted \/ StopManagerStopped
    \/ StopSyncerSynced \/ StopSyncerInterrupted \/ StopSyncerStopped

SpecStop == InitStop /\ [][NextStop]_vars

\* ------------------------------------------ RunWithContext: the startup checks
\* Everything but the startup variables.
restVars == <<provVars, clusterVars, mgrVars, sysVars, electVars, runVars, syncVars, stopVars,
              httpVars>>

\* applyEnvConfig(&cfg); an error of envconfig.Process is returned.
RunApplyEnvConfig ==
    /\ bpc = "env"
    /\ LET r == applyEnvConfig(bootCfg, heap, osEnv) IN
         /\ bootCfg' = r.cfg
         /\ heap' = r.heap
         /\ bpc' = IF r.err THEN "returned" ELSE "hooks"
         /\ bootErr' = IF r.err THEN "failed to process environment variables" ELSE ""
    /\ UNCHANGED <<userCfg, userHeap, osEnv, webhooks, effects, restVars>>

\* The checks of cfg.Name, of len(hooks) and of every hook.
checkHooks(c, hs) ==
    IF c["Name"] = "" THEN "webhook name is required"
    ELSE IF Len(hs) = 0 THEN "at least one webhook hook is required"
    ELSE validateHooks(hs, 1, {})

RunValidateHooks ==
    /\ bpc = "hooks"
    /\ bootErr' = checkHooks(bootCfg, webhooks)
    /\ bpc' = IF bootErr' # "" THEN "returned" ELSE "durations"
    /\ UNCHANGED <<userCfg, userHeap, osEnv, webhooks, bootCfg, heap, effects, restVars>>

\* applyDefaults(&cfg), then validateCertDurations(&cfg).
RunValidateCertDurations ==
    /\ bpc = "durations"
    /\ bootCfg' = applyDefaults(bootCfg)
    /\ bootErr' = validateCertDurations(bootCfg')
    /\ bpc' = IF bootErr' # "" THEN "returned" ELSE "client"
    /\ UNCHANGED <<userCfg, userHeap, osEnv, webhooks, heap, effects, restVars>>

\* rest.InClusterConfig and kubernetes.NewForConfig; either may fail.
RunNewClient ==
    /\ bpc = "client"
    /\ \E ok \in BOOLEAN :
         /\ effects' = IF ok THEN effects \cup {"client"} ELSE effects
         /\ bpc' = IF ok THEN "start" ELSE "returned"
         /\ bootErr' = IF ok THEN "" ELSE "failed to create kubernetes client"
    /\ UNCHANGED <<userCfg, userHeap, osEnv, webhooks, bootCfg, heap, restVars>>

\* The provider, the servers and the leader election (or the certificate
\* management directly) are started; RunWithContext waits in its select.
RunStartComponents ==
    /\ bpc = "start"
    /\ effects' = effects \cup {"components"}
    /\ bpc' = "running"
    /\ UNCHANGED <<userCfg, userHeap, osEnv, webhooks, bootCfg, heap, bootErr, restVars>>

NextBoot ==
    \/ RunApplyEnvConfig \/ RunValidateHooks \/ RunValidateCertDurations
    \/ RunNewClient \/ RunStartComponents

\* The values code and environment give to numbers, and to *bool.
CfgVals == -1..MaxCfgVal
BoolTexts == {"true", "false"}

\* What code can write into field f (zero included).
CodeVals(f) ==
    IF Kind(f) = "string" THEN {"", "code"}
    ELSE IF Kind(f) = "ptr" THEN {Nil, Ptr("user", f)}
    ELSE CfgVals

\* What the environment can hold for field f.
EnvVals(f) ==
    IF Kind(f) = "string" THEN {Unset(f), EnvVal(""), EnvVal("env")}
    ELSE IF Kind(f) = "ptr" THEN {Unset(f), Malformed(f)} \cup {EnvVal(b) : b \in BoolTexts}
    ELSE {Unset(f), Malformed(f)} \cup {EnvVal(v) : v \in CfgVals}

\* The hooks Webhooks() may return: the sound ones and one of each defect.
GoodHook == Hook(<<"/", "a">>, TRUE, "Validating")
HookChoices ==
    {Hook(p, TRUE, t) : p \in {<<"/", "a">>, <<"/", "b">>}, t \in {"Mutating", "Validating"}}
    \cup {Hook(<<>>, TRUE, "Mutating"), Hook(<<"a">>, TRUE, "Mutating"),
          Hook(<<"/", "a">>, FALSE, "Mutating"), Hook(<<"/", "a">>, TRUE, "Other")}

HookLists(n) == UNION {[1..k -> HookChoices] : k \in 0..n}

\* Nothing but RunWithContext is modelled: no Lease, no object, no component.
InitBeforeRun ==
    /\ InitProvider /\ InitManager /\ InitClusterCold /\ InitSysOff /\ InitIdle
    /\ cfg = [CAValidity |-> MaxDur, CARefresh |-> 1, CertValidity |-> MaxDur - 1, CertRefresh |-> 1]
    /\ env = [r \in Replicas |-> [podName |-> <<"pod", r>>, hostname |-> <<"host", r>>]]
    /\ lcfg = [LeaseDuration |-> MaxLease, RenewDeadline |-> MaxLease - 1, RetryPeriod |-> 1]
    /\ lease = NoLease
    /\ lnow = 0
    /\ le = [r \in Replicas |-> "off"]
    /\ observed = [r \in Replicas |-> [rec |-> NoLease, at |-> 0]]
    /\ lastRenew = [r \in Replicas |-> 0]
    /\ nextTry = [r \in Replicas |-> 0]
    /\ leaderCtx = [r \in Replicas |-> "none"]

\* cfg := admission.Configure(): the local cfg is the struct the user
\* returned, pointers included.
InitConfigure ==
    /\ InitLive
    /\ bootCfg = userCfg
    /\ heap = userHeap
    /\ bpc = "env"
    /\ bootErr = ""
    /\ effects = {}

\* The heap of a Config: every *bool the user set points to one of the bools.
UserHeaps(c) ==
    {h \in [Addrs -> BoolTexts \cup {"free"}] :
       \A a \in Addrs : (h[a] # "free") <=> (a[1] = "user" /\ c[a[2]] = Ptr("user", a[2]))}

\* Inputs of the precedence rule: the name and one more field set in code
\* (or none), one variable of the environment set (or none).
InitEnv ==
    /\ InitBeforeRun
    /\ \E f \in Fields, g \in Fields :
         /\ \E v \in CodeVals(f), n \in CodeVals("Name") :
              userCfg = [[ZeroConfig EXCEPT !["Name"] = n] EXCEPT ![f] = v]
         /\ \E x \in EnvVals(g) : osEnv = [NoEnv EXCEPT ![g] = x]
    /\ userHeap \in UserHeaps(userCfg)
    /\ webhooks = <<GoodHook>>
    /\ InitConfigure

SpecEnv == InitEnv /\ [][NextBoot]_vars

\* Inputs of the startup checks: name in code and in the environment, the
\* four certificate durations in code, one of them in the environment, and
\* the hooks. Hook lists of two and more come with the default durations.
InitStartup ==
    /\ InitBeforeRun
    /\ userHeap = FreeHeap
    /\ \E n \in CodeVals("Name"), x \in EnvVals("Name") :
         \/ /\ webhooks \in HookLists(1)
            /\ \E d \in [DurFields -> CfgVals] :
                 userCfg = [f \in Fields |-> IF f = "Name" THEN n
                                              ELSE IF f \in DurFields THEN d[f]
                                              ELSE ZeroConfig[f]]
            /\ osEnv = [NoEnv EXCEPT !["Name"] = x]
         \/ /\ webhooks = <<GoodHook>>
            /\ \E d \in [DurFields -> CfgVals] :
                 userCfg = [f \in Fields |-> IF f = "Name" THEN n
                                              ELSE IF f \in DurFields THEN d[f]
                                              ELSE ZeroConfig[f]]
            /\ \E g \in DurFields : \E y \in EnvVals(g) :
                 /\ y.set
                 /\ osEnv = [[NoEnv EXCEPT !["Name"] = x] EXCEPT ![g] = y]
         \/ /\ webhooks \in HookLists(MaxHooks)
            /\ userCfg = [ZeroConfig EXCEPT !["Name"] = n]
            /\ osEnv = [NoEnv EXCEPT !["Name"] = x]
    /\ InitConfigure

SpecStartup == InitStartup /\ [][NextBoot]_vars

\* ================================================== claims: leaderelection
\* C1: for every timing with RetryPeriod < RenewDeadline < LeaseDuration, in
\* every reachable state at most one replica has the leaderCtx of
\* OnStartedLeading live (runs CertManager and CABundleSyncer), and the
\* CertProvider has been started on every running replica.
C1_SingleWriter ==
    /\ \A r1, r2 \in Replicas :
          (leaderCtx[r1] = "live" /\ leaderCtx[r2] = "live") => r1 = r2
    /\ \A r \in Replicas : started[r] => ppc[r] # "off"

\* Replica 1 was killed as leader and replica 2 does not lead yet.
InGap == killedAt >= 0 /\ leaderCtx[2] # "live"

\* What replica 2's GetCertificate returns in the gap: the pair it installed
\* last, which is the pair of the serving Secret once its events are handled.
ServesLastKnown ==
    InGap =>
        /\ everInstalled[2] =>
              /\ ~GetCertificate(current[2]).err
              /\ GetCertificate(current[2]).kp = lastGood[2]
        /\ (ppc[2] = "watch" /\ secQ[2] = <<>> /\ wpc[2] = "idle" /\ UsableServing(certSecret))
              => GetCertificate(current[2]).kp.cert = certSecret.cert.serial
        /\ (got[1].called /\ got[1].installedBefore) => ~got[1].err

LostLeadership(r) == leaderCtx[r] = "cancelled"

\* C14: after a loss of leadership, whenever it comes (also while Manager.Start
\* or Syncer.Start waits for its informer cache), RunWithContext has not
\* returned, the root context is alive and the CertProvider keeps running.
C14_LossKeepsProcessRunning ==
    \A r \in Replicas :
        LostLeadership(r) => (exit[r] = "none" /\ started[r] /\ ppc[r] # "off")

\* The elector of replica r gave up after its renewals failed, and the process
\* has not been ended by anything else.
RenewalsFailed(r) == le[r] = "stopped" /\ started[r]

\* C15: when the Lease could not be renewed, leaderelection.Run reports the
\* failure to RunWithContext: an error of the leader election is on errCh, or
\* RunWithContext has returned an error.
C15_ElectionFailureSurfaced ==
    \A r \in Replicas :
        RenewalsFailed(r) =>
            \/ exit[r] = "err"
            \/ \E i \in 1..Len(errCh[r]) : errCh[r][i] = "leaderElection"

\* ========================================================= claims: syncer
\* C16: whenever the PATCH of a webhook configuration returns without error,
\* every webhook entry of that configuration carries the bundle bytes of the
\* event, whatever other writers did between the GET and the PATCH.
C16_PatchedMeansAllEntries ==
    [][\A r \in Replicas :
          (pass[r].pc = "patch" /\ pass'[r] = NextRef(pass[r], "ok"))
              => \A i \in 1..Len(whc'[Head(pass[r].todo)].entries) :
                     whc'[Head(pass[r].todo)].entries[i] = pass[r].cm]_vars

\* The refs a pass has attempted so far, in the order of the attempts.
RefsOf(done) == [i \in 1..Len(done) |-> done[i][1]]

\* C17: in a pass of onConfigMapUpdate the refs attempted so far followed by the
\* refs still to do are always exactly s.webhookRefs, so that at the end of the
\* pass every ref was attempted exactly once whatever the outcomes were; and no
\* outcome puts an error on errCh or ends the syncer.
C17_EveryRefAttemptedOnce ==
    \A r \in Replicas :
        /\ (pass[r].pc # "idle" \/ pass[r].done # <<>>)
              => /\ RefsOf(pass[r].done) \o pass[r].todo = RefSeq(hooks)
                 /\ spc[r] \in {"initial", "watch"}
        /\ pass[r].pc = "idle" => pass[r].todo = <<>>
        /\ errCh[r] = <<>> /\ exit[r] = "none"

\* A pass over two refs ended: the first patch failed, the second succeeded.
C17_Witness ==
    /\ pass[1].pc = "idle"
    /\ Len(pass[1].done) = 2
    /\ pass[1].done[1][2] \in {"getErr", "patchErr", "notfound"}
    /\ pass[1].done[2][2] = "ok"

\* Every webhook entry of configuration k carries a CA bundle.
Populated(k) == \A i \in 1..Len(whc[k].entries) : whc[k].entries[i] # EmptyCABundle

\* A reconcile of the Manager began and completed after k was applied, and
\* the syncer has handled every event it was handed.
ReconciledAfterApply(k) ==
    /\ mpc[1] = "idle" /\ lastTick[1] = "ok"
    /\ doneAt[1] > late[k].at
    /\ spc[1] = "watch" /\ cmQ[1] = <<>> /\ pass[1].pc = "idle"

\* The syncer handled a bundle event after k was applied and patched k.
PatchedAfterApply(k) ==
    /\ late[k].got
    /\ \E i \in 1..Len(pass[1].done) : pass[1].done[i] = <<k, "ok">>

\* C18: a webhook configuration absent at the leader's start and applied
\* later (when Manager and Syncer were running) raises no error, and its caBundle is populated once the syncer has
\* handled a bundle event after the apply or the Manager has completed a
\* reconcile after the apply.
C18_LateConfigPopulated ==
    \A k \in determineWebhookRefs(hooks) :
        (late[k].applied /\ late[k].running) =>
            /\ errCh[1] = <<>> /\ exit[1] = "none"
            /\ (ReconciledAfterApply(k) \/ PatchedAfterApply(k)) => Populated(k)

\* ===================================================== claims: certmanager
\* The serving Secret holds a certificate.
ServingHeld == UsableServing(certSecret)

\* The serving certificate chains to a CA of the bundle ConfigMap.
ChainsToBundle == certSecret.cert.issuer \in Serials(ParseCertsPEM(bundleCM))

\* C2 as stated: in every reachable state, a serving certificate held by the
\* serving Secret chains to a CA contained in the bundle ConfigMap.
C2_SigningCurrencyAlways == ServingHeld => ChainsToBundle

\* C2 amended: in every reachable state, a serving certificate whose issuing CA
\* has not passed its NotAfter chains to a CA contained in the bundle ConfigMap.
C2_SigningCurrencyWhileIssuerValid ==
    (ServingHeld /\ \E c \in cas : c.serial = certSecret.cert.issuer /\ c.na > now)
        => ChainsToBundle

\* The CA was rotated and the bundle holds both CAs, while the serving
\* certificate is still the one the older CA signed.
C2_Witness ==
    /\ ServingHeld /\ ChainsToBundle
    /\ Len(ParseCertsPEM(bundleCM)) = 2
    /\ caSecret.cert.serial # certSecret.cert.issuer
    /\ \E c \in cas : c.serial = certSecret.cert.issuer /\ c.na > now

ThreeSteps == <<"ensureCA", "ensureCABundle", "ensureServingCert">>

\* C3: the steps of a tick run in the order ensureCA, ensureCABundle,
\* ensureServingCert; a failed step ends the tick (after a failed ensureCABundle
\* no ensureServingCert runs); and whenever a serving certificate is written, the
\* bundle ConfigMap already contains the CA that signed it.
C3_OrderAndAbort ==
    /\ [](\A r \in Replicas :
            /\ Len(trace[r]) <= 3
            /\ trace[r] = SubSeq(ThreeSteps, 1, Len(trace[r]))
            /\ failedAt[r] # "" => (mpc[r] = "idle" /\ trace[r][Len(trace[r])] = failedAt[r]))
    /\ [][(certSecret' # certSecret /\ UsableServing(certSecret'))
            => certSecret'.cert.issuer \in Serials(ParseCertsPEM(bundleCM))]_vars

\* ensureCABundle failed after ensureCA had written a new CA: the tick ended
\* there, the bundle lacks that CA and no serving certificate exists.
C3_Witness ==
    /\ failedAt[1] = "ensureCABundle" /\ mpc[1] = "idle" /\ lastTick[1] = "failed"
    /\ UsableCA(caSecret) /\ ~(caSecret.cert.serial \in Serials(ParseCertsPEM(bundleCM)))
    /\ ~certSecret.exists

\* C4: a tick that begins on the state a successful tick left (nothing became
\* due, nothing was edited) performs no write.
C4_Idempotent == \A r \in Replicas : quiet[r] => tickWrites[r] = 0

\* A second successful tick ran, some time after the first, and wrote nothing.
C4_Witness ==
    /\ quiet[1] /\ mpc[1] = "idle" /\ lastTick[1] = "ok" /\ okTicks[1] = 2
    /\ trace[1] = ThreeSteps /\ tickWrites[1] = 0
    /\ now > StartTime /\ Len(ParseCertsPEM(bundleCM)) = 2
    /\ caSecret.cert.serial <= MaxMint /\ certSecret.cert.serial > MaxMint

InRefreshWindow(cert, refresh, t) == t >= cert.na - refresh /\ t < cert.na

I1 == ServingHeld /\ ChainsToBundle
I3 ==
    /\ UsableCA(caSecret) /\ now < caSecret.cert.na
    /\ ~InRefreshWindow(caSecret.cert, cfg.CARefresh, now)
    /\ ServingHeld /\ now < certSecret.cert.na
    /\ ~InRefreshWindow(certSecret.cert, cfg.CertRefresh, now)

\* C5: from any starting state, once a tick has completed without failure
\* (a fortiori after two), I1, I2 (the tick dropped no unexpired CA from the
\* bundle) and I3 hold at the moment the tick completes.
C5_Convergence ==
    \A r \in Replicas :
        (mpc[r] = "idle" /\ lastTick[r] = "ok" /\ okTicks[r] >= 1 /\ doneAt[r] = now)
            => (I1 /\ ~dropped[r] /\ I3)

\* From a corrupt CA Secret, a bundle holding an expired earlier CA and an
\* unexpired foreign CA: the first tick to complete minted a new CA and a new
\* serving certificate, pruned the earlier CA and kept the foreign one.
C5_Witness ==
    /\ mpc[1] = "idle" /\ lastTick[1] = "ok" /\ okTicks[1] = 1 /\ doneAt[1] = now
    /\ I1 /\ I3 /\ ~dropped[1]
    /\ Serials(cmBefore[1]) = {MaxMint + 1, MaxMint + 2}
    /\ Serials(ParseCertsPEM(bundleCM)) = {caSecret.cert.serial, MaxMint + 2}
    /\ certSecret.cert.issuer = caSecret.cert.serial

\* The latest tick of replica r completed, and in it ensureCA minted a new CA
\* because the existing one, not yet expired, had entered its refresh window.
RotatedInTick(r) ==
    /\ mpc[r] = "idle" /\ lastTick[r] = "ok" /\ doneAt[r] = now
    /\ rot[r].why = "refresh"

BothCAsInBundle(r) ==
    {rot[r].old.serial, caSecret.cert.serial} \subseteq Serials(ParseCertsPEM(bundleCM))

\* C11 as stated: in the tick that mints a new CA for refresh, the serving
\* certificate is re-issued, signed by the new CA, and the bundle holds both CAs.
C11_ServingFollowsNewCA ==
    \A r \in Replicas :
        RotatedInTick(r) =>
            /\ BothCAsInBundle(r)
            /\ certSecret # rot[r].servingWas
            /\ certSecret.cert.issuer = caSecret.cert.serial

\* C11 amended: after the tick that mints a new CA for refresh the bundle
\* holds the new CA, and the old one too when the bundle held it as the tick
\* read it; the serving certificate chains to the bundle; it is re-issued in
\* that tick, signed by the new CA, exactly when it was itself unusable, in its
\* refresh window or not signed by a CA of the bundle, and is left untouched
\* otherwise.
C11_ServingReissuedOnlyWhenDue ==
    \A r \in Replicas :
        RotatedInTick(r) =>
            /\ caSecret.cert.serial \in Serials(ParseCertsPEM(bundleCM))
            /\ rot[r].old.serial \in Serials(cmBefore[r]) => BothCAsInBundle(r)
            /\ ServingHeld /\ ChainsToBundle
            /\ IF needNewTargetCertKeyPair(rot[r].servingWas, ParseCertsPEM(bundleCM),
                                           cfg.CertRefresh, now)
               THEN /\ certSecret # rot[r].servingWas
                    /\ certSecret.cert.issuer = caSecret.cert.serial
                    /\ certSecret.cert.nb = now
               ELSE certSecret = rot[r].servingWas

\* A CA was rotated for refresh while the serving certificate was not due:
\* the serving Secret still holds the certificate the old CA signed.
C11_Witness ==
    /\ RotatedInTick(1) /\ BothCAsInBundle(1)
    /\ certSecret = rot[1].servingWas
    /\ certSecret.cert.issuer = rot[1].old.serial
    /\ rot[1].old.na > now

\* The latest tick of replica r completed with nothing deleted since it began,
\* and in it ensureCA found the CA Secret gone although a CA had been minted
\* before: the CA Secret was deleted from outside.
RecreatedInTick(r) ==
    /\ mpc[r] = "idle" /\ lastTick[r] = "ok" /\ doneAt[r] = now
    /\ changed = "no"
    /\ rot[r].why = "unusable"
    /\ \E c \in cas : c # NoCert /\ c.serial < caSecret.cert.serial

NewCAPublished ==
    /\ UsableCA(caSecret) /\ caSecret.cert.na > now
    /\ caSecret.cert.serial \in Serials(ParseCertsPEM(bundleCM))

\* C12 as stated: one successful tick after the CA Secret was deleted, the CA
\* Secret holds a new CA, the bundle contains it, and a new serving
\* certificate has been issued.
C12_DeletedCAReissuesServing ==
    \A r \in Replicas :
        RecreatedInTick(r) =>
            /\ NewCAPublished
            /\ certSecret # rot[r].servingWas
            /\ certSecret.cert.issuer = caSecret.cert.serial

\* C12 amended: one successful tick after the CA Secret was deleted, the CA
\* Secret holds a new CA and the bundle contains it; the serving certificate
\* chains to the bundle, and is re-issued under the new CA in that tick only
\* when it was itself absent, unusable, due for refresh or signed by a CA no
\* longer in the bundle; otherwise the one the deleted CA signed stays.
C12_DeletedCARecreated ==
    \A r \in Replicas :
        RecreatedInTick(r) =>
            /\ NewCAPublished
            /\ ServingHeld /\ ChainsToBundle
            /\ IF needNewTargetCertKeyPair(rot[r].servingWas, ParseCertsPEM(bundleCM),
                                           cfg.CertRefresh, now)
               THEN /\ certSecret # rot[r].servingWas
                    /\ certSecret.cert.issuer \in Serials(ParseCertsPEM(bundleCM))
                    /\ certSecret.cert.nb = now
               ELSE certSecret = rot[r].servingWas

\* The CA Secret was deleted and recreated by the next tick while the serving
\* certificate, signed by the deleted CA, was not due and stayed in place.
C12_Witness ==
    /\ RecreatedInTick(1) /\ NewCAPublished /\ edits > 0
    /\ certSecret = rot[1].servingWas
    /\ certSecret.cert.issuer < caSecret.cert.serial
    /\ certSecret.cert.issuer \in Serials(ParseCertsPEM(bundleCM))

\* C6: right after a successful ensureCABundle the ConfigMap holds exactly the
\* signer of ensureCA plus the certificates it held before with NotAfter > now;
\* and no step ever removes a CA with NotAfter > now from the ConfigMap.
C6_BundleContent ==
    /\ [](\A r \in Replicas :
            (mpc[r] = "ensureServingCert" /\ failedAt[r] = "") =>
                /\ bundleCM.exists
                /\ Range(ParseCertsPEM(bundleCM)) =
                       {mca[r]} \cup {c \in Range(cmBefore[r]) : c.na > now})
    /\ [][\A c \in Range(ParseCertsPEM(bundleCM)) :
             ~(c \in Range(ParseCertsPEM(bundleCM'))) => c.na <= now]_vars

\* The CA Secret was deleted and a new CA minted: after ensureCABundle the
\* bundle holds the new signer next to the old, unexpired CA.
C6_Witness ==
    /\ mpc[1] = "ensureServingCert" /\ failedAt[1] = ""
    /\ Len(ParseCertsPEM(bundleCM)) = 2
    /\ \A c \in Range(ParseCertsPEM(bundleCM)) : c.na > now /\ c.nb = now

\* ======================================================= claims: cold start
ClusterGoal ==
    /\ UsableCA(caSecret)
    /\ ParseCertsPEM(bundleCM) = <<caSecret.cert>>
    /\ ServingHeld
    /\ certSecret.cert.issuer = caSecret.cert.serial

WebhooksGoal ==
    \A k \in determineWebhookRefs(hooks) :
        /\ whc[k].exists
        /\ \A i \in 1..Len(whc[k].entries) : whc[k].entries[i] = Content(bundleCM)

ColdGoal == ClusterGoal /\ WebhooksGoal /\ Ready(1)

\* C10: from a cold start of one replica, absent failures, the first completed
\* tick leaves a self-signed CA in the CA Secret, exactly that CA in the bundle
\* ConfigMap and a serving certificate signed by it in the serving Secret; and
\* eventually, and from then on, every webhook entry's caBundle also equals the
\* bundle content and Ready() is true.
C10_ColdStart ==
    /\ [](okTicks[1] >= 1 => ClusterGoal)
    /\ <>[]ColdGoal

\* Both webhook configurations, two entries each, carry the bundle; a TLS
\* reader was handed the serving certificate; two ticks have completed.
C10_Witness ==
    /\ ColdGoal /\ okTicks[1] = 2
    /\ hooks = WebhookTypes /\ Len(whc["validating"].entries) = MaxEntries
    /\ whc["mutating"].entries[1].certs = <<caSecret.cert>>
    /\ got[1].called /\ ~got[1].err /\ got[1].kp.cert = certSecret.cert.serial

\* ======================================================== claims: provider
\* C7: GetCertificate returns an error iff no add/update of the serving Secret
\* has carried a parseable pair so far; otherwise it returns the pair of the
\* most recent such event (so the first call after an install sees the new pair).
C7_GetCertificateLatest ==
    /\ GetCertificate(current[1]).err <=> ~everInstalled[1]
    /\ everInstalled[1] => GetCertificate(current[1]).kp = lastGood[1]

\* A second pair was installed, a delete fired, a later update was rejected,
\* and a reader has obtained the second pair.
C7_Witness ==
    /\ everInstalled[1] /\ deletedSince[1]
    /\ prevGood[1] # NilKeypair /\ lastGood[1] # prevGood[1]
    /\ lastEv[1] = [type |-> "update", applied |-> FALSE]
    /\ got[1].called /\ ~got[1].err /\ got[1].kp = lastGood[1]

\* C8: whenever the informer goroutine is not inside a handler, Ready() is true
\* iff a pair has been installed and no delete of the serving Secret fired since
\* the most recent install.
C8_ReadyIff ==
    wpc[1] = "idle" => (Ready(1) <=> (everInstalled[1] /\ ~deletedSince[1]))

\* After an install and a delete, a rejected add leaves Ready() false.
C8_Witness ==
    /\ wpc[1] = "idle" /\ everInstalled[1] /\ deletedSince[1]
    /\ lastEv[1] = [type |-> "add", applied |-> FALSE]
    /\ ~Ready(1)

\* C9: every result a reader obtained concurrently with the watcher is the
\* complete pair of the latest or of the previous install, never a mixture, and
\* never an error once a pair had been installed.
C9_ReadersSeeWholePair ==
    \A rd \in Readers :
        got[rd].called =>
            /\ got[rd].installedBefore => ~got[rd].err
            /\ got[rd].err => got[rd].kp = NilKeypair
            /\ ~got[rd].err =>
                  /\ got[rd].kp \in {got[rd].prev, got[rd].new}
                  /\ got[rd].kp # NilKeypair
                  /\ got[rd].kp.cert = got[rd].kp.key

\* Two readers ran while the watcher was between its two stores of a second
\* install: one holds the previous pair, the other the new one.
C9_Witness ==
    /\ wpc[1] = "stored"
    /\ got[1].called /\ got[2].called
    /\ got[1].kp = prevGood[1] /\ got[1].kp # NilKeypair
    /\ got[2].kp = lastGood[1] /\ lastGood[1] # prevGood[1]

\* ================================================ claims: RunWithContext
\* The value the rule code > environment > default gives field f: what code
\* set when that is non-zero (non-nil), else the ACW_ variable when set, else
\* the default tag, else the zero value.
Precedence(f) ==
    IF ~IsUnset(f, userCfg[f]) THEN Deref(userCfg, userHeap, f)
    ELSE IF osEnv[f].set THEN osEnv[f].val
    ELSE IF f \in TaggedFields THEN DefaultTag(f)
    ELSE NoText(f)

\* A hook is refused: empty path, no leading '/', a path an earlier hook has,
\* nil Admit, or a type that is neither Mutating nor Validating.
BadHook(i) ==
    \/ Len(webhooks[i].Path) = 0
    \/ webhooks[i].Path[1] # "/"
    \/ \E j \in 1..(i - 1) : webhooks[j].Path = webhooks[i].Path
    \/ ~webhooks[i].Admit
    \/ webhooks[i].Type \notin {"Mutating", "Validating"}

\* A duration in force is <= 0, or a refresh in force is >= its validity.
BadDurations ==
    \/ \E f \in DurFields : Precedence(f) <= 0
    \/ Precedence("CARefresh") >= Precedence("CAValidity")
    \/ Precedence("CertRefresh") >= Precedence("CertValidity")

ConfigError ==
    \/ Precedence("Name") = ""
    \/ Len(webhooks) = 0
    \/ \E i \in 1..Len(webhooks) : BadHook(i)
    \/ BadDurations

\* C19: when the name is missing, no hook is given, a hook has an empty,
\* non-'/'-prefixed or duplicate path, a nil admit function or an invalid
\* type, one of the four certificate durations is <= 0, or a refresh is >=
\* its validity (equal included), RunWithContext never creates the cluster
\* client nor starts a component, and what it returns is an error.
C19_ConfigErrorsRejectedFirst ==
    ConfigError =>
        /\ effects = {}
        /\ bpc \notin {"client", "start", "running"}
        /\ bpc = "returned" => bootErr # ""

\* Everything is in order but CARefresh = CAValidity, and RunWithContext has
\* returned the error of validateCertDurations with nothing created.
C19_Witness ==
    /\ bpc = "returned" /\ effects = {}
    /\ Precedence("Name") # "" /\ Len(webhooks) > 0
    /\ \A i \in 1..Len(webhooks) : ~BadHook(i)
    /\ \A f \in DurFields : Precedence(f) > 0
    /\ Precedence("CARefresh") = Precedence("CAValidity")
    /\ Precedence("CertRefresh") < Precedence("CertValidity")
    /\ bootErr = "CA refresh must be less than CA validity"

\* C20: once applyEnvConfig has returned without error, every Config field
\* holds the value set in code when that is non-zero (non-nil for a pointer),
\* else the value of its ACW_ variable when set, else its default tag; a
\* non-zero value set in code is never replaced by the environment.
C20_CodeEnvDefault ==
    bpc \in {"hooks", "durations"} =>
        \A f \in Fields : Deref(bootCfg, heap, f) = Precedence(f)

\* Code set a *bool and the environment sets the same field to the other
\* value; applyEnvConfig has returned.
C20_Witness ==
    /\ bpc = "hooks"
    /\ \E f \in PtrFields :
         /\ userCfg[f] # Nil
         /\ osEnv[f].set /\ ~osEnv[f].bad
         /\ osEnv[f].val # userHeap[<<"user", f>>]
         /\ Deref(bootCfg, heap, f) = userHeap[<<"user", f>>]

\* ================================================ claims: stopping
\* C22: Manager.Start returns only after its context was cancelled, and what
\* it returns then is nil, at whatever moment the cancellation came (before
\* the informer caches synced, during a reconcile, between two ticks).
C22_ManagerStartReturnsNil ==
    \A r \in Replicas :
        mStart[r] \in {"nil", "err"} => (leaderCtx[r] = "cancelled" /\ mStart[r] = "nil")

\* C21: whenever ctx had been cancelled when RunWithContext returned, what it
\* returned is nil, whatever the component goroutines reported while stopping.
C21_CancelReturnsNil ==
    \A r \in Replicas : (exit[r] # "none" /\ rootCtx[r] = "cancelled") => exit[r] = "nil"

\* ================================================ claims: HTTP handlers
\* C23: the readiness probe answers 200 "ok" iff Ready() was true when the
\* request was served and 503 "certificate not ready" otherwise; it answers
\* 503 before the first install and after a delete of the serving Secret.
C23_ReadyzIffReady ==
    probe.called =>
        /\ probe.resp = [status |-> 200, body |-> "ok"] <=> probe.readyWas
        /\ ~probe.readyWas => probe.resp = [status |-> 503, body |-> "certificate not ready"]
        /\ (~probe.installed \/ probe.deleted) => probe.resp.status = 503

\* A probe was answered 503 after a pair had been installed and the Secret
\* deleted.
C23_Witness ==
    /\ probe.called /\ probe.installed /\ probe.deleted
    /\ probe.resp = [status |-> 503, body |-> "certificate not ready"]

\* C24: when Admit returns nil for a well-formed admission request, the
\* handler answers with HTTP 500 and a failure status.
C24_NilResponseIs500 ==
    (/\ adm.called /\ adm.admit = "nil"
     /\ adm.req.scheme /\ adm.req.body = "review" /\ adm.req.ctype = "application/json"
     /\ adm.req.request)
        => (adm.out.kind # "panic" /\ adm.out.status = 500)
\* ================================================ claims: certmanager, later
\* The serving Secret holds a certificate issued since the first observation
\* (the serials 1..MaxMint are those of this run).
ServingChanged == ServingHeld /\ certSecret.cert.serial \in 1..MaxMint

\* C25 as stated: whenever the serving certificate differs from the one of an
\* earlier observation, its signer is in the bundle ConfigMap observed with it.
C25_ChangedServingSignerInBundle == ServingChanged => ChainsToBundle

\* C25 amended: the step that changes the serving certificate leaves its
\* signer in the bundle ConfigMap, and at every later observation of that
\* certificate the signer is in the bundle unless it has passed its NotAfter.
C25_ChangedServingSignerWhileValid ==
    /\ [](ServingChanged /\ (\E c \in cas : c.serial = certSecret.cert.issuer /\ c.na > now)
             => ChainsToBundle)
    /\ [][(certSecret'.cert # certSecret.cert /\ UsableServing(certSecret'))
             => certSecret'.cert.issuer \in Serials(ParseCertsPEM(bundleCM'))]_vars

\* The serving certificate was issued in this run, the CA was rotated since,
\* and the bundle still holds the CA that signed it.
C25_Witness ==
    /\ ServingChanged /\ ChainsToBundle
    /\ caSecret.exists /\ caSecret.crt = "pem"
    /\ caSecret.cert.serial # certSecret.cert.issuer
    /\ caSecret.cert.serial \in 1..MaxMint

\* I3's two classes of a certificate at time t, as the invariant words them.
Fresh(c, validity, refresh, t) == c.nb <= t /\ t < c.na - validity + refresh

Due(c, refresh, t) == c.na - refresh <= t /\ t < c.na

\* Fresh as the rotators decide it: valid and not yet in the refresh window.
FreshUntilDue(c, refresh, t) == c.nb <= t /\ t < c.na - refresh

Valid(c, t) == c.nb <= t /\ t < c.na

\* The step a replica has just returned from without error.
Returned(r, step, to) == mpc[r] = step /\ mpc'[r] = to /\ failedAt'[r] = ""

\* C26 as stated: a valid certificate is in exactly one of fresh
\* [NotBefore, NotAfter - validity + refresh) and due [NotAfter - refresh,
\* NotAfter), and ensureCA has rotated no fresh CA.
C26_FreshXorDue ==
    /\ (UsableCA(caSecret) /\ Valid(caSecret.cert, now))
          => (Fresh(caSecret.cert, cfg.CAValidity, cfg.CARefresh, now)
                # Due(caSecret.cert, cfg.CARefresh, now))
    /\ (UsableServing(certSecret) /\ Valid(certSecret.cert, now))
          => (Fresh(certSecret.cert, cfg.CertValidity, cfg.CertRefresh, now)
                # Due(certSecret.cert, cfg.CertRefresh, now))
    /\ \A r \in Replicas :
          (mpc[r] = "ensureCABundle" /\ rot[r].why = "refresh")
             => ~Fresh(rot[r].old, cfg.CAValidity, cfg.CARefresh, now)

\* C26 amended: with fresh = [NotBefore, NotAfter - refresh), a valid
\* certificate is in exactly one of fresh and due; a step that returns without
\* error keeps a usable fresh CA and a usable fresh serving certificate that
\* chains to the bundle, and replaces a usable due one.
C26_RefreshWindow ==
    /\ [](/\ (UsableCA(caSecret) /\ Valid(caSecret.cert, now))
               => (FreshUntilDue(caSecret.cert, cfg.CARefresh, now)
                     # Due(caSecret.cert, cfg.CARefresh, now))
          /\ (UsableServing(certSecret) /\ Valid(certSecret.cert, now))
               => (FreshUntilDue(certSecret.cert, cfg.CertRefresh, now)
                     # Due(certSecret.cert, cfg.CertRefresh, now)))
    /\ [][\A r \in Replicas :
            /\ (Returned(r, "ensureCA.rotate", "ensureCABundle") /\ UsableCA(caSecret))
                 => /\ FreshUntilDue(caSecret.cert, cfg.CARefresh, now) => caSecret' = caSecret
                    /\ Due(caSecret.cert, cfg.CARefresh, now)
                         => /\ caSecret'.cert # caSecret.cert
                            /\ FreshUntilDue(caSecret'.cert, cfg.CARefresh, now)
            /\ (Returned(r, "ensureServingCert.rotate", "idle") /\ UsableServing(certSecret))
                 => /\ (/\ FreshUntilDue(certSecret.cert, cfg.CertRefresh, now)
                         /\ certSecret.cert.issuer
                               \in Serials(ServingBundleArg(mca[r], mbundle[r])))
                         => certSecret' = certSecret
                    /\ Due(certSecret.cert, cfg.CertRefresh, now)
                         => /\ certSecret'.cert # certSecret.cert
                            /\ FreshUntilDue(certSecret'.cert, cfg.CertRefresh, now)]_vars

\* ensureCA has just replaced a due CA under a configuration whose validity is
\* not twice its refresh, and the serving certificate is fresh.
C26_Witness ==
    /\ mpc[1] = "ensureCABundle" /\ rot[1].why = "refresh"
    /\ Due(rot[1].old, cfg.CARefresh, now)
    /\ cfg.CAValidity # 2 * cfg.CARefresh
    /\ UsableServing(certSecret) /\ FreshUntilDue(certSecret.cert, cfg.CertRefresh, now)

\* --------------------------------------------------- ticks one unit apart
\* The time unit is the resolution of time.Duration; the ticker of
\* Manager.Start fires every time.Minute, so a sync begins later than the
\* previous one ended.
TickBegin ==
    /\ lastTick[1] # "none" => now > doneAt[1]
    /\ SyncBegin(1)

NextTick == TickBegin \/ CMCALookup \/ CMCARotate \/ CMBundle \/ CMServingLookup
            \/ CMServingRotate \/ CMFail \/ AdvanceTime

\* CertRefresh at the largest value validateCertDurations accepts.
InitTick == InitCM /\ cfg.CertRefresh = cfg.CertValidity - 1

SpecTick == InitTick /\ [][NextTick]_vars

\* C27: with CertRefresh = CertValidity - 1, every reconcile tick that returns
\* without error has re-issued the serving certificate.
C27_EveryTickReissues ==
    [][Returned(1, "ensureServingCert.rotate", "idle")
         => /\ certSecret'.cert # certSecret.cert
            /\ UsableServing(certSecret')
            /\ certSecret'.cert.nb = now]_vars

\* A second tick has replaced a serving certificate that was usable, far from
\* expiry and signed by a CA of the bundle, while the CA stayed the same.
C27_Witness ==
    /\ mpc[1] = "idle" /\ okTicks[1] = 2 /\ lastTick[1] = "ok"
    /\ UsableServing(certSecret) /\ certSecret.cert.nb = doneAt[1]
    /\ certSecret.cert.serial = 3
    /\ caSecret.cert.serial = 1
    /\ cfg.CertValidity = MaxDur

\* ================================================ claims: certprovider, later
\* The serving Secret is updated with data onSecretUpdate cannot use.
CPBadUpdate ==
    /\ \E s \in EventSecrets :
          /\ s.name = "cert" /\ BadInput(s) # ""
          /\ ProviderUpsert(1, "update", s)
    /\ UNCHANGED <<ppc, secQ>>

NextBadInput == CPAdd \/ CPBadUpdate \/ CPDelete \/ CPStoreReady \/ CPReadyz

SpecBadInput == InitCP /\ [][NextBadInput]_vars

\* C28: a call of onSecretUpdate with tls.crt or tls.key missing or empty, or
\* with a pair that does not parse, leaves the installed keypair and the Ready
\* flag exactly as they were, and no store of either is pending.
C28_BadInputLeavesState ==
    [][CPBadUpdate => /\ current' = current
                      /\ ready' = ready
                      /\ wpc'[1] = "idle"]_vars

\* With a pair installed and Ready true, an update of the serving Secret with
\* bad data was handled: the installed pair is still the earlier one.
C28_Witness ==
    /\ wpc[1] = "idle" /\ ready[1] /\ current[1] # NilKeypair
    /\ lastEv[1] = [type |-> "update", applied |-> FALSE]
    /\ current[1] = lastGood[1]
    /\ probe.called /\ probe.readyWas

\* ------------------------------------------------ the leader loses the Lease
\* Replica 1 leads, its Manager is in the ticker loop and its Syncer watches
\* the bundle ConfigMap; no renewal of the Lease succeeds any more.
InitCease ==
    /\ InitProvider /\ InitManager /\ InitClusterCold /\ InitBooted
    /\ cfg.CAValidity = MaxDur /\ cfg.CertValidity = MaxDur - 1
    /\ cfg.CARefresh = 1 /\ cfg.CertRefresh = 1
    /\ started = [r \in Replicas |-> r = 1]
    /\ ppc = [r \in Replicas |-> "off"]
    /\ secQ = [r \in Replicas |-> <<>>]
    /\ spc = [r \in Replicas |-> IF r = 1 THEN "watch" ELSE "off"]
    /\ cmQ = [r \in Replicas |-> <<>>]
    /\ hooks = WebhookTypes
    /\ \E n \in 1..MaxEntries :
          whc = [k \in WebhookTypes |-> [exists |-> TRUE, entries |-> [i \in 1..n |-> EmptyCABundle]]]
    /\ env = [r \in Replicas |-> [podName |-> <<"pod", r>>, hostname |-> <<"host", r>>]]
    /\ lcfg = [LeaseDuration |-> MaxLease, RenewDeadline |-> MaxLease - 1, RetryPeriod |-> 1]
    /\ lease = [holder |-> <<"pod", 1>>, renew |-> 0]
    /\ lnow = 0
    /\ le = [r \in Replicas |-> IF r = 1 THEN "leading" ELSE "off"]
    /\ observed = [r \in Replicas |-> [rec |-> IF r = 1 THEN lease ELSE NoLease, at |-> 0]]
    /\ lastRenew = [r \in Replicas |-> 0]
    /\ nextTry = [r \in Replicas |-> 0]
    /\ leaderCtx = [r \in Replicas |-> IF r = 1 THEN "live" ELSE "none"]
    /\ killedAt = -1
    /\ exit = [r \in Replicas |-> "none"]
    /\ mStart = [r \in Replicas |-> IF r = 1 THEN "running" ELSE "off"]
    /\ sStart = [r \in Replicas |-> IF r = 1 THEN "running" ELSE "off"]
    /\ errCh = [r \in Replicas |-> <<>>]
    /\ pass = [r \in Replicas |-> NoPass]
    /\ wedits = 0
    /\ late = [k \in WebhookTypes |-> [applied |-> FALSE, at |-> 0, got |-> FALSE, running |-> FALSE]]

CeaseBegin == mStart[1] = "running" /\ SyncBegin(1)
CeaseBeginCancelled == SyncBeginCancelled(1)
CeaseCALookup == EnsureCALookup(1)
CeaseCARotate == EnsureCARotate(1)
CeaseBundle == EnsureCABundle(1)
CeaseServingLookup == EnsureServingLookup(1)
CeaseServingRotate == EnsureServingRotate(1)
CeaseFail == SyncStepFails(1)
CeaseDeliver == sStart[1] = "running" /\ SyncerDeliverPass(1)
CeaseGet == PatchGet(1)
CeasePatch == PatchSubmit(1)
CeaseDeadline == RenewDeadlineExceeded(1)
CeaseLeaseTick == le[1] = "leading" /\ LeaseTick
CeaseManagerStopped == ManagerStopped(1)
CeaseSyncerStopped == SyncerStopped(1)
CeaseTime == now < MaxWHTime /\ AdvanceTime

NextCease ==
    \/ CeaseBegin \/ CeaseBeginCancelled \/ CeaseCALookup \/ CeaseCARotate \/ CeaseBundle
    \/ CeaseServingLookup \/ CeaseServingRotate \/ CeaseFail
    \/ CeaseDeliver \/ CeaseGet \/ CeasePatch
    \/ CeaseLeaseTick \/ CeaseDeadline \/ CeaseManagerStopped \/ CeaseSyncerStopped \/ CeaseTime

SpecCease == InitCease /\ [][NextCease]_vars

\* ================================================ claims: leadership loss
\* C29: once the replica's leaderCtx is cancelled, no step of its Manager or
\* Syncer changes the CA Secret, the bundle ConfigMap, the serving Secret or a
\* webhook configuration: what they still attempt fails on the context.
C29_NoWriteAfterLoss ==
    [][leaderCtx[1] = "cancelled"
         => /\ caSecret' = caSecret
            /\ bundleCM' = bundleCM
            /\ certSecret' = certSecret
            /\ whc' = whc]_vars

\* Leadership was lost while a sync and a syncer pass were under way: the sync
\* stopped at a step that had something to write, the pass at a GET, and both
\* Start calls have returned.
C29_Witness ==
    /\ leaderCtx[1] = "cancelled"
    /\ mStart[1] = "nil" /\ sStart[1] = "nil"
    /\ mpc[1] = "idle" /\ failedAt[1] = "ensureServingCert" /\ tickWrites[1] > 0
    /\ pass[1].pc = "idle" /\ pass[1].done # <<>>
    /\ pass[1].done[Len(pass[1].done)][2] = "getErr"
    /\ \E k \in hooks : \E i \in 1..Len(whc[k].entries) : whc[k].entries[i] = EmptyCABundle

\* ----------------------------------------------- a patch of the syncer fails
\* The leader's Manager and Syncer; the calls of the syncer may fail, and
\* another controller may remove a webhook entry between a GET and its PATCH.
\* Every goroutine of the leader keeps running.
NextRetry ==
    \/ WHSyncerStart \/ WHSyncerDeliver \/ WHGet \/ WHPatch \/ WHRemoveEntry
    \/ CMBegin \/ CMCALookup \/ CMCARotate \/ CMBundle \/ CMServingLookup \/ CMServingRotate

FairRetry ==
    /\ WF_vars(WHSyncerStart) /\ WF_vars(WHSyncerDeliver) /\ WF_vars(WHGet) /\ WF_vars(WHPatch)
    /\ WF_vars(CMBegin) /\ WF_vars(CMCALookup) /\ WF_vars(CMCARotate) /\ WF_vars(CMBundle)
    /\ WF_vars(CMServingLookup) /\ WF_vars(CMServingRotate)

SpecRetry == InitWH /\ [][NextRetry]_vars /\ FairRetry

\* patchWebhook has just returned an error for a ref.
PatchFailed ==
    /\ pass[1].pc \in {"get", "patch"}
    /\ Len(pass'[1].done) = Len(pass[1].done) + 1
    /\ pass'[1].done[Len(pass'[1].done)][2] \in {"getErr", "patchErr"}

\* Every entry of every webhook configuration of the refs carries the bytes
\* of the bundle ConfigMap.
CABundleWritten ==
    /\ bundleCM.exists /\ HasBundle(bundleCM)
    /\ \A k \in determineWebhookRefs(hooks) :
          whc[k].exists =>
             \A i \in 1..Len(whc[k].entries) : whc[k].entries[i] = Content(bundleCM)

\* C30: when the patches of the syncer stop failing, the caBundle of every
\* entry is eventually the bundle and stays so, the bundle ConfigMap changing
\* no further: either patches fail again and again, or the caBundle is written.
C30_FailedPatchRetried == ([]<><<PatchFailed>>_vars) \/ <>[]CABundleWritten

\* ================================================ claims: the sync loop
\* C31: while the context is live and Manager.Start is in its loop, a
\* reconcile can begin whenever none is running, whether the previous one
\* (initial or periodic) failed or not; once Start has returned after the
\* cancellation, no reconcile begins.
C31_LoopSurvivesFailure ==
    /\ []((leaderCtx[1] = "live" /\ mStart[1] = "running" /\ mpc[1] = "idle")
            => ENABLED CeaseBegin)
    /\ [][mStart[1] = "nil" => mpc' = mpc]_vars

\* A reconcile is running although the one before it failed, after an
\* earlier one had succeeded.
C31_Witness ==
    /\ leaderCtx[1] = "live" /\ mStart[1] = "running"
    /\ mpc[1] = "ensureCA" /\ lastTick[1] = "failed" /\ okTicks[1] > 0

\* ------------------------------------------- events of Secrets by their name
\* The informer watches every Secret of the namespace: events of other
\* Secrets and events of the serving Secret.
CPOtherUpsert ==
    /\ \E s \in EventSecrets, type \in {"add", "update"} :
          s.name # "cert" /\ ProviderUpsert(1, type, s)
    /\ UNCHANGED <<ppc, secQ>>

CPOtherDelete == ProviderDelete(1, "other") /\ UNCHANGED <<ppc, secQ>>

CPServingUpsert ==
    /\ \E s \in EventSecrets, type \in {"add", "update"} :
          s.name = "cert" /\ ProviderUpsert(1, type, s)
    /\ UNCHANGED <<ppc, secQ>>

CPServingDelete == ProviderDelete(1, "cert") /\ UNCHANGED <<ppc, secQ>>

NextNames == CPOtherUpsert \/ CPOtherDelete \/ CPServingUpsert \/ CPServingDelete
             \/ CPStoreReady \/ CPReadyz

SpecNames == InitCP /\ [][NextNames]_vars

\* C32: an add, update or delete event of a Secret whose name is not the
\* serving Secret's leaves the installed keypair and the Ready flag as they
\* were, and starts no store of either.
C32_OtherNamesIgnored ==
    [][(CPOtherUpsert \/ CPOtherDelete)
         => /\ current' = current
            /\ ready' = ready
            /\ wpc' = wpc]_vars

\* With a pair installed and Ready true, the delete of another Secret was
\* handled: Ready is still true and a probe has seen it.
C32_Witness ==
    /\ wpc[1] = "idle" /\ ready[1] /\ current[1] = lastGood[1] /\ current[1] # NilKeypair
    /\ lastEv[1] = [type |-> "delete", applied |-> FALSE]
    /\ ~deletedSince[1]
    /\ probe.called /\ probe.resp.status = 200

\* C33: in every state, also between the two stores of an install and after
\* a delete event, Ready() = true implies that GetCertificate returns a
\* keypair and no error.
C33_ReadyImpliesCertificate ==
    Ready(1) => /\ ~GetCertificate(current[1]).err
                /\ GetCertificate(current[1]).kp # NilKeypair
                /\ GetCertificate(current[1]).kp \in {lastGood[1], prevGood[1]}

\* The handler is between the two stores of a further install that follows a
\* delete and a re-install: Ready is true and the new pair is already served.
C33_Witness ==
    /\ wpc[1] = "stored" /\ Ready(1)
    /\ prevGood[1] # NilKeypair /\ lastGood[1] # prevGood[1]
    /\ GetCertificate(current[1]).kp = lastGood[1]

\* C34: a delete event of the serving Secret stores false in the Ready flag
\* and nothing else; afterwards, until the next install, Ready() is false
\* while GetCertificate returns the last installed keypair and no error.
C34_DeleteKeepsKeypair ==
    /\ [][CPServingDelete => /\ current' = current
                             /\ ~ready'[1]
                             /\ wpc' = wpc]_vars
    /\ []((wpc[1] = "idle" /\ everInstalled[1] /\ deletedSince[1])
            => /\ ~Ready(1)
               /\ ~GetCertificate(current[1]).err
               /\ GetCertificate(current[1]).kp = lastGood[1])

\* The serving Secret was deleted after a second install: the probe answers
\* 503 while the second pair is still installed.
C34_Witness ==
    /\ wpc[1] = "idle" /\ everInstalled[1] /\ deletedSince[1]
    /\ lastEv[1] = [type |-> "delete", applied |-> TRUE]
    /\ prevGood[1] # NilKeypair /\ current[1] = lastGood[1]
    /\ probe.called /\ probe.resp.status = 503 /\ probe.deleted

\* ------------------------------------- a bundle ConfigMap without a bundle
\* The ConfigMap as the syncer may find it: absent, present without the
\* ca-bundle.crt key, with an empty or an unparseable value, or with a bundle.
NoKeyCM == [exists |-> TRUE, data |-> "missing", certs |-> <<>>]

\* The caBundle an earlier life of the deployment left in the configurations.
OldBundle == Content(CMWith(<<OldCA(MaxDur)>>))

InitEmpty ==
    /\ InitProvider /\ InitManager /\ InitLeader1
    /\ now = 0
    /\ cfg \in AcceptedConfigs
    /\ cfg.CAValidity = MaxDur /\ cfg.CertValidity = MaxDur - 1
    /\ cfg.CARefresh = 1 /\ cfg.CertRefresh = 1
    /\ caSecret = AbsentSecret
    /\ certSecret = AbsentSecret
    /\ bundleCM \in {AbsentCM, NoKeyCM, CMWith(<<>>), CorruptCM, CMWith(<<OldCA(MaxDur)>>)}
    /\ nextSerial = 1
    /\ cas = {}
    /\ started = [r \in Replicas |-> FALSE]
    /\ ppc = [r \in Replicas |-> "off"]
    /\ secQ = [r \in Replicas |-> <<>>]
    /\ spc = [r \in Replicas |-> "off"]
    /\ cmQ = [r \in Replicas |-> <<>>]
    /\ hooks \in (SUBSET WebhookTypes) \ {{}}
    /\ \E n \in 1..MaxEntries :
          whc = [k \in WebhookTypes |->
                   IF k \in hooks THEN [exists |-> TRUE, entries |-> [i \in 1..n |-> OldBundle]]
                   ELSE [exists |-> FALSE, entries |-> <<>>]]

NextEmpty ==
    \/ WHSyncerStart \/ WHSyncerDeliver \/ WHGet \/ WHPatch
    \/ CMBegin \/ CMCALookup \/ CMCARotate \/ CMBundle \/ CMServingLookup \/ CMServingRotate

SpecEmpty == InitEmpty /\ [][NextEmpty]_vars

NoBundleBytes(b) == b.data \in {"missing", "empty"}

\* C35: the syncer enters no pass for a ConfigMap whose ca-bundle.crt is
\* missing or empty (or that does not exist at the initial sync), and no step
\* of it replaces the caBundle of a webhook entry by an empty value.
C35_NoEmptyBundlePatched ==
    /\ [](pass[1].pc # "idle" => ~NoBundleBytes(pass[1].cm))
    /\ [][\A k \in WebhookTypes :
            \A i \in 1..Len(whc'[k].entries) :
               (i <= Len(whc[k].entries) /\ whc'[k].entries[i] # whc[k].entries[i])
                  => ~NoBundleBytes(whc'[k].entries[i])]_vars

\* The syncer has made its initial sync and handled the informer's add for a
\* ConfigMap that exists without bundle bytes: no pass was made and the
\* configurations still carry the earlier caBundle.
C35_Witness ==
    /\ spc[1] = "watch" /\ cmQ[1] = <<>>
    /\ bundleCM.exists /\ NoBundleBytes(Content(bundleCM))
    /\ pass[1].pc = "idle" /\ pass[1].done = <<>>
    /\ \A k \in hooks : \A i \in 1..Len(whc[k].entries) : whc[k].entries[i] = OldBundle

\* ------------------------------------------------- the senders on errCh
\* errCh := make(chan error, 6)
ErrChBuffer == 6

\* The goroutines that send on errCh, by the name the model gives their value.
Senders == {"certProvider", "certManager", "caBundleSyncer", "leaderElection"} \cup Servers

\* The goroutine that sends value v has returned from its Start (or Run).
SenderEnded(v) ==
    IF v = "certProvider" THEN ppc[1] = "stopped" \/ (ppc[1] = "off" /\ exit[1] # "none")
    ELSE IF v \in Servers THEN srvpc[1][v] \in {"err", "nil"}
    ELSE IF v = "certManager" THEN mStart[1] \in {"err", "nil"}
    ELSE IF v = "caBundleSyncer" THEN sStart[1] \in {"err", "nil"}
    ELSE le[1] = "stopped"

SendDeadline == RenewDeadlineExceeded(1)
SendLeaseTick == le[1] = "leading" /\ LeaseTick

\* One replica from the call of RunWithContext on, the loss of the lease and
\* the time after the return of RunWithContext included.
NextSend == NextStop \/ SendDeadline \/ SendLeaseTick

SpecSend == InitStop /\ [][NextSend]_vars

\* The value RunWithContext's select has received, counted with those waiting.
SentSoFar == Len(errCh[1]) + (IF exit[1] = "err" THEN 1 ELSE 0)

\* C36: at most six values are ever sent on errCh, so a send never finds the
\* buffer of six full, before or after RunWithContext returned; every send is
\* the last act of its goroutine, which has not ended before and never runs
\* again, so each sender sends at most once.
C36_SendsFitBuffer ==
    /\ [](SentSoFar <= ErrChBuffer /\ Cardinality(Senders) = ErrChBuffer)
    /\ [][\A v \in Senders :
            /\ errCh'[1] = Append(errCh[1], v) => ~SenderEnded(v) /\ SenderEnded(v)'
            /\ SenderEnded(v) => SenderEnded(v)']_vars
    /\ [][Len(errCh'[1]) > Len(errCh[1]) => \E v \in Senders : errCh'[1] = Append(errCh[1], v)]_vars

\* RunWithContext has returned nil on ctx.Done() and five goroutines have sent
\* their error since, none of them blocked: the provider, both servers, the
\* manager and the syncer.
C36_Witness ==
    /\ exit[1] = "nil"
    /\ Len(errCh[1]) = 5
    /\ \A v \in Senders \ {"leaderElection"} : \E i \in 1..5 : errCh[1][i] = v

\* ------------------------------------------------ the election after a loss
\* Every goroutine of every replica keeps taking its steps and lease time
\* keeps passing.
FairLoss ==
    /\ WF_vars(LeaseTick)
    /\ \A r \in Replicas :
         /\ WF_vars(RunWithContext(r))
         /\ WF_vars(started[r] /\ TryAcquire(r))
         /\ WF_vars(started[r] /\ Renew(r))
         /\ WF_vars(started[r] /\ RenewDeadlineExceeded(r))
         /\ WF_vars(startCertManagement(r))
         /\ WF_vars(ManagerCacheSynced(r)) /\ WF_vars(ManagerSyncInterrupted(r))
         /\ WF_vars(ManagerStopped(r))
         /\ WF_vars(SyncerCacheSynced(r)) /\ WF_vars(SyncerSyncInterrupted(r))
         /\ WF_vars(SyncerStopped(r))
         /\ WF_vars(RunReturnsErr(r))

\* The electors and what they start; the provider's steps are left out.
NextReelect ==
    \/ LossRun \/ LossAcquire \/ LossRenew \/ LossDeadline \/ LeaseTick
    \/ LossStartCertManagement
    \/ LossManagerSynced \/ LossManagerInterrupted \/ LossManagerStopped
    \/ LossSyncerSynced \/ LossSyncerInterrupted \/ LossSyncerStopped
    \/ LossRunReturns

SpecReelect == InitLoss /\ [][NextReelect]_vars /\ FairLoss

\* The replica's process runs: RunWithContext was called and has not returned.
Alive(r) == started[r] /\ exit[r] = "none"

\* leaderelection.Run has returned on a replica that is alive.
LostLease(r) == Alive(r) /\ le[r] = "stopped"

\* C37: a replica that lost the lease while staying alive takes part in the
\* election again: it eventually is acquiring or leading, unless its process
\* has ended by then.
C37_LoserReelects ==
    \A r \in Replicas : LostLease(r) ~> (le[r] \in {"acquiring", "leading"} \/ ~Alive(r))

\* --------------------------------------- the serving Secret deleted and made again
\* Replica 1 leads and reconciles an empty namespace; the providers of all
\* replicas watch the serving Secret, which someone deletes now and then.
InitRecreate ==
    /\ InitProvider /\ InitManager /\ InitClusterCold /\ InitLeader1
    /\ cfg = [CAValidity |-> MaxDur, CARefresh |-> 1, CertValidity |-> MaxDur - 1, CertRefresh |-> 1]
    /\ started = [r \in Replicas |-> TRUE]
    /\ ppc = [r \in Replicas |-> "watch"]
    /\ secQ = [r \in Replicas |-> <<>>]
    /\ spc = [r \in Replicas |-> "off"]
    /\ cmQ = [r \in Replicas |-> <<>>]
    /\ hooks = WebhookTypes
    /\ whc = [k \in WebhookTypes |-> [exists |-> FALSE, entries |-> <<>>]]

RecreateDelete == DeleteCertSecret
RecreateDeliver == \E r \in Replicas : ProviderDeliver(r)
RecreateStoreReady == \E r \in Replicas : ProviderStoreReady(r)

NextRecreate ==
    \/ RecreateDelete \/ RecreateDeliver \/ RecreateStoreReady
    \/ CMBegin \/ CMCALookup \/ CMCARotate \/ CMBundle \/ CMServingLookup \/ CMServingRotate
    \/ CMFail

\* The informer goroutine of every provider keeps handing over its events, and
\* the leader's loop keeps ticking; an API call may fail any number of times.
FairRecreate ==
    /\ \A r \in Replicas : WF_vars(ProviderDeliver(r)) /\ WF_vars(ProviderStoreReady(r))
    /\ WF_vars(CMBegin) /\ WF_vars(CMCALookup) /\ WF_vars(CMCARotate) /\ WF_vars(CMBundle)
    /\ WF_vars(CMServingLookup) /\ WF_vars(CMServingRotate)

SpecRecreate == InitRecreate /\ [][NextRecreate]_vars /\ FairRecreate

\* The informer of replica r hands over the event at the head of its queue.
Delivers(r) == secQ[r] # <<>> /\ secQ'[r] = Tail(secQ[r])

\* The provider of replica r has handled every event of the serving Secret.
CaughtUp(r) == secQ[r] = <<>> /\ wpc[r] = "idle"

\* C38: on every replica the delete event of the serving Secret sets ready to
\* false; an add or update of a Secret without a keypair leaves ready as it
\* is, so that a provider that has caught up with an absent or empty Secret is
\* not ready; and once a reconcile has written a keypair every replica
\* becomes ready again (or the Secret is deleted once more), in the same process.
C38_ReadyFollowsSecret ==
    /\ [][\A r \in Replicas :
            Delivers(r) =>
               /\ Head(secQ[r]).type = "delete" => ~ready'[r]
               /\ (Head(secQ[r]).type # "delete" /\ ~CarriesPair(Head(secQ[r]).obj))
                     => ready'[r] = ready[r]]_vars
    /\ [](\A r \in Replicas : CaughtUp(r) /\ ~UsableServing(certSecret) => ~Ready(r))
    /\ \A r \in Replicas : UsableServing(certSecret) ~> (Ready(r) \/ ~UsableServing(certSecret))
    /\ [](\A r \in Replicas : started[r] /\ ppc[r] = "watch")

\* Every replica was ready, saw the delete, saw the empty Secret created by
\* the next reconcile, and is ready again with the keypair written since.
C38_Witness ==
    /\ edits > 0
    /\ UsableServing(certSecret)
    /\ \A r \in Replicas :
         /\ CaughtUp(r) /\ Ready(r) /\ ~deletedSince[r]
         /\ prevGood[r] # NilKeypair /\ lastGood[r] # prevGood[r]
         /\ current[r] = [cert |-> certSecret.cert.serial, key |-> certSecret.keyId]

\* ------------------------------------------------ refresh and the tick period
\* ticker := time.NewTicker(time.Minute), in units of twenty seconds.
TickPeriod == 3

\* The largest duration and the last moment of this specification.
MaxTickDur == 5
MaxTickTime == 7

\* The durations validateCertDurations accepts, CertRefresh shorter than the
\* tick period, equal to it and longer among them.
TickConfigs ==
    {c \in [CAValidity : {MaxTickDur}, CARefresh : {1, TickPeriod},
            CertValidity : 1..MaxTickDur, CertRefresh : 1..MaxTickDur] :
        validateCertDurations(c) = ""}

InitRefresh ==
    /\ InitProvider /\ InitManager /\ InitSysOff /\ InitLeader1
    /\ now = 0
    /\ cfg \in TickConfigs
    /\ caSecret = AbsentSecret
    /\ certSecret = AbsentSecret
    /\ bundleCM = AbsentCM
    /\ nextSerial = 1
    /\ cas = {}

\* Manager.Start: the sync on start, then one sync at every tick of the ticker.
RefreshTick ==
    /\ lastTick[1] = "none" \/ now = doneAt[1] + TickPeriod
    /\ SyncBegin(1)

\* Time passes up to the next tick.
RefreshTime ==
    /\ now < MaxTickTime
    /\ mpc[1] = "idle" /\ lastTick[1] # "none"
    /\ now < doneAt[1] + TickPeriod
    /\ now' = now + 1
    /\ changed' = IF SomethingDue(now + 1) THEN "before" ELSE changed
    /\ UNCHANGED <<cfg, caSecret, certSecret, bundleCM, nextSerial, cas>>
    /\ UNCHANGED <<mpc, mca, mbundle, trace, failedAt, tickWrites, lastTick, okTicks, quiet,
                   cmBefore, dropped, doneAt, edits, rot>>
    /\ UNCHANGED <<provVars, sysVars, leVars>>

\* A leader whose every tick succeeds.
NextRefresh ==
    \/ RefreshTick \/ RefreshTime
    \/ CMCALookup \/ CMCARotate \/ CMBundle \/ CMServingLookup \/ CMServingRotate

SpecRefresh == InitRefresh /\ [][NextRefresh]_vars

\* NotAfter of the certificate in the serving Secret has passed.
ServingExpired == UsableServing(certSecret) /\ now > certSecret.cert.na

\* C39: with CertRefresh no shorter than the tick period, a leader running and
\* every tick succeeding, the serving Secret never holds a certificate whose
\* NotAfter has passed; validateCertDurations asks only 0 < refresh < validity
\* and lets a CertRefresh shorter than the tick period through.
C39_RefreshPrecedesExpiry ==
    /\ cfg.CertRefresh >= TickPeriod => ~ServingExpired
    /\ cfg.CertRefresh > 0 /\ cfg.CertRefresh < cfg.CertValidity
    /\ \E c \in TickConfigs : c.CertRefresh < TickPeriod
    /\ \A c \in [CAValidity : {MaxTickDur}, CARefresh : {1}, CertValidity : 0..MaxTickDur,
                 CertRefresh : 0..MaxTickDur] :
          validateCertDurations(c) = "" <=> (0 < c.CertRefresh /\ c.CertRefresh < c.CertValidity)

\* CertRefresh equals the tick period; the certificate minted at the start was
\* left alone by no tick: the tick one period later replaced it before its
\* NotAfter, which has passed since, and the Secret holds the new one.
C39_Witness ==
    /\ cfg.CertRefresh = TickPeriod /\ cfg.CertValidity = TickPeriod + 1
    /\ okTicks[1] = 2 /\ mpc[1] = "idle"
    /\ now > cfg.CertValidity
    /\ UsableServing(certSecret) /\ certSecret.cert.nb = TickPeriod
    /\ now < certSecret.cert.na

====
